---- MODULE Spec2Model ----
(***************************************************************************)
(* Model of the nettie CLI provisioning engine:                            *)
(*   - findGitRoot          (utilities/cli/src/utils/index.ts)             *)
(*   - createGitHubRepository (utilities/cli/src/utils/index.ts)           *)
(*   - createApp            (commands/createApp.ts, latest revision)       *)
(*   - createUtility        (commands/createUtility.ts, latest revision)   *)
(*   - listSubmodules, updateSubmodules, removeSubmodule                   *)
(*                          (commands/submoduleManager.ts)                 *)
(*   - forkRepo             (commands/forkRepo.ts)                         *)
(* Paths are sequences of segments; repository identities and URLs are     *)
(* strings built exactly as the template literals of the code build them.  *)
(***************************************************************************)
EXTENDS Integers, Sequences, FiniteSets, TLC

VARIABLES
    fsWorld,          \* the directories and git layout on disk (workspace, submodules, marker)
    cwd,              \* process.cwd()
    located,          \* outcome of the last findGitRoot() call made by the locate command
    pc,               \* position of the running create command
    config,           \* ProjectConfig / UtilityConfig handed to createApp / createUtility
    workspaceRoot,    \* const workspaceRoot of createApp / createUtility
    actualGithubRepo, \* let actualGithubRepo
    useOrg,           \* const useOrg (NoOrg when undefined)
    projectDir,       \* what is at appPath / utilityPath
    localRepo,        \* the git repository at appPath / utilityPath
    github,           \* repositories this run created on GitHub and what was pushed
    workspaceRepo,    \* index and history of the workspace repository
    pushSuccess,      \* let pushSuccess (createApp); whether a push candidate succeeded
    branchIdx,        \* index into branchNames of the next push candidate
    calls,            \* every call made to a collaborator, in order
    printed,          \* console output, in order
    outcome,          \* how the promise of the running command settled
    modules,          \* the git state of every submodule registered in the workspace index
    job,              \* the local variables of the running submodule command
    history           \* what the previous submodule command did (at most one entry)

vars == <<fsWorld, cwd, located, pc, config, workspaceRoot, actualGithubRepo, useOrg,
          projectDir, localRepo, github, workspaceRepo, pushSuccess, branchIdx, calls,
          printed, outcome, modules, job, history>>

managerVars == <<modules, job, history>>

createVars == <<pc, config, workspaceRoot, actualGithubRepo, useOrg, projectDir,
                localRepo, github, workspaceRepo, pushSuccess, branchIdx, calls, printed,
                outcome>>

-----------------------------------------------------------------------------
(* Paths *)

\* path.join(a, ...segments) for already-normalised operands
Join(a, b) == a \o b

RECURSIVE Resolve(_, _)
\* path.resolve(base, rel): ".." drops the last segment (never above "/"),
\* any other segment is appended
Resolve(base, rel) ==
    IF rel = <<>> THEN base
    ELSE IF Head(rel) = ".."
         THEN Resolve(IF base = <<>> THEN <<>> ELSE SubSeq(base, 1, Len(base) - 1), Tail(rel))
         ELSE Resolve(Append(base, Head(rel)), Tail(rel))

IsPrefix(p, q) == Len(p) <= Len(q) /\ SubSeq(q, 1, Len(p)) = p

Prefixes(p) == {SubSeq(p, 1, n) : n \in 0..Len(p)}

RECURSIVE Ups(_)
Ups(n) == IF n = 0 THEN <<>> ELSE <<"..">> \o Ups(n - 1)

-----------------------------------------------------------------------------
(* The disk: one workspace repository with registered, initialised submodules *)
(* (subs) and the empty directories deinit leaves behind (emptied)             *)

\* candidate workspace roots
WorkspaceRoots == {<<"ws">>, <<"home", "ws">>}

\* paths at which the workspace registers submodules: apps/<name>,
\* utilities/frontend/<name>, and a top-level one
SubmodulePaths == {<<"lib">>, <<"apps", "panel">>, <<"utilities", "frontend", "fid">>}

\* the marker subdirectory findGitRoot looks for
CliMarker == <<"utilities", "cli">>

OutsideDir == <<"tmp">>

\* roots of git work trees on disk
RepoRoots(w) == {w.root} \cup {Join(w.root, s) : s \in w.subs}

\* every directory that exists
Directories(w) ==
    UNION {Prefixes(d) : d \in
        {w.root, Join(w.root, <<".git">>), OutsideDir}
        \cup (IF w.marker THEN {Join(w.root, CliMarker)} ELSE {})
        \cup {Join(w.root, s) : s \in w.subs \cup w.emptied}
        \cup {Join(w.root, s \o <<"src">>) : s \in w.subs}
        \cup {Join(w.root, <<".git", "modules">> \o s) : s \in w.subs}}

\* fs.existsSync
ExistsSync(w, p) == p \in Directories(w)

NoRepo == <<"<none>">>

\* git rev-parse --show-toplevel: the innermost work tree containing dir
ShowToplevel(w, dir) ==
    LET roots == {r \in RepoRoots(w) : IsPrefix(r, dir)}
    IN  IF roots = {} THEN NoRepo
        ELSE CHOOSE r \in roots : \A o \in roots : Len(o) <= Len(r)

\* content of <root>/.git: a directory in the workspace itself (reading it
\* throws), a "gitdir: <relative path>" file in a submodule, where git writes
\* one ".." per segment of the submodule path, then .git/modules/<path>
GitFile(w, top) ==
    IF top = w.root THEN [isFile |-> FALSE, gitdir |-> <<>>]
    ELSE LET s == SubSeq(top, Len(w.root) + 1, Len(top))
         IN  [isFile |-> TRUE, gitdir |-> Ups(Len(s)) \o <<".git", "modules">> \o s]

-----------------------------------------------------------------------------
(* findGitRoot *)

ErrNotGit == "not in a git repository"
ErrNotNettie == "not in the nettie-apps repository"

Found(p) == [ok |-> TRUE, root |-> p, err |-> ""]
Thrown(e) == [ok |-> FALSE, root |-> <<>>, err |-> e]

\* the three '..' of path.resolve(absoluteGitDir, '..', '..', '..')
ParentRoot(absoluteGitDir) == Resolve(absoluteGitDir, <<"..", "..", "..">>)

\* the outer catch of findGitRoot: whatever was thrown inside the try,
\* 'not in a git repository' is thrown instead
OuterCatch(e) == ErrNotGit

FindGitRoot(w, dir) ==
    LET currentGitRoot == ShowToplevel(w, dir)
    IN  IF currentGitRoot = NoRepo THEN Thrown(OuterCatch("rev-parse failed"))
        ELSE
        LET git == GitFile(w, currentGitRoot)
            absoluteGitDir == Resolve(currentGitRoot, git.gitdir)
            parentRoot == ParentRoot(absoluteGitDir)
        IN  IF git.isFile /\ ExistsSync(w, Join(parentRoot, CliMarker))
            THEN Found(parentRoot)
            ELSE IF ExistsSync(w, Join(currentGitRoot, CliMarker))
                 THEN Found(currentGitRoot)
                 ELSE Thrown(OuterCatch(ErrNotNettie))

-----------------------------------------------------------------------------
(* The locate command: findGitRoot() called from wherever the user stands *)

NotLocated == [from |-> <<>>, res |-> Thrown("")]

Worlds == [root : WorkspaceRoots, subs : SUBSET SubmodulePaths, marker : BOOLEAN,
           emptied : {{}}]

\* directories a user can stand in
StartDirs(w) ==
    {w.root, OutsideDir}
    \cup (IF w.marker THEN {Join(w.root, CliMarker)} ELSE {})
    \cup {Join(w.root, s) : s \in w.subs}
    \cup {Join(w.root, s \o <<"src">>) : s \in w.subs}

\* the user changes directory
Chdir(d) ==
    /\ UNCHANGED managerVars
    /\ d \in StartDirs(fsWorld)
    /\ d # cwd
    /\ cwd' = d
    /\ UNCHANGED <<fsWorld, located>>
    /\ UNCHANGED createVars

\* a command calls findGitRoot()
Locate ==
    /\ UNCHANGED managerVars
    /\ located' = [from |-> cwd, res |-> FindGitRoot(fsWorld, cwd)]
    /\ UNCHANGED <<fsWorld, cwd>>
    /\ UNCHANGED createVars

-----------------------------------------------------------------------------
(* create: configuration, collaborators' answers, helpers *)

Username == "alice"               \* what getGitHubUsername and data.owner.login answer
OrgName == "genoox-nettie"
ProjectName == "demo"
NoOrg == ""

Kinds == {"app", "frontend"}      \* createApp; createUtility with type frontend

Configs == [kind : Kinds, name : {ProjectName},
            githubRepo : {<<OrgName, ProjectName>>, <<Username, ProjectName>>},
            createGithubRepo : BOOLEAN, githubToken : BOOLEAN]

\* `${owner}/${name}`
RepoString(owner, name) == owner \o "/" \o name

\* `https://github.com/${repo}.git`
RepoUrl(repo) == "https://github.com/" \o repo \o ".git"

\* bug variant: the remote is built from the request
OriginRepoRequested(requested, actual) == requested

\* the repository the 'origin' remote is built from (createApp line 92, createUtility line 330)
OriginRepo(requested, actual) == actual

\* bug variant: the submodule URL is built from the request
SubmoduleRepoRequested(requested, actual) == requested

\* the repository the submodule URL is built from (createApp lines 154/162/168,
\* createUtility lines 389/413/422/431)
SubmoduleRepo(requested, actual) == actual

\* `apps/${name}` / `utilities/${type}/${name}`
RelPath(kind, name) ==
    IF kind = "app" THEN "apps/" \o name ELSE "utilities/" \o kind \o "/" \o name

\* appPath / utilityPath
ProjectPath(root, kind, name) ==
    Join(root, IF kind = "app" THEN <<"apps", name>> ELSE <<"utilities", kind, name>>)

\* bug variant: a third candidate
BranchNamesThree == <<"main", "master", "trunk">>

\* the candidate branches of the initial push, in order
BranchNames == <<"main", "master">>

NoLocalRepo == [exists |-> FALSE, initialCommit |-> FALSE, origin |-> ""]
StaleUrl == "https://github.com/old/demo.git"

\* what may be at the project path before create runs: nothing, a plain
\* directory, or the repository a previous run left behind
DiskStates ==
    { [dir |-> "absent", repo |-> NoLocalRepo],
      [dir |-> "preexisting", repo |-> NoLocalRepo],
      [dir |-> "preexisting",
       repo |-> [exists |-> TRUE, initialCommit |-> FALSE, origin |-> StaleUrl]] }

CreateWorlds == [root : {<<"ws">>}, subs : {{<<"apps", "panel">>}}, marker : BOOLEAN,
                 emptied : {{}}]

Call(op, url, arg, res) == [op |-> op, url |-> url, arg |-> arg, res |-> res]
Line(kind, text) == [kind |-> kind, text |-> text]

Log(entries) == calls' = calls \o entries
Say(lines) == printed' = printed \o lines

\* the three manual remediation commands
ManualCommands(repo, kind, name) ==
    << Line("manual", "git submodule add " \o RepoUrl(repo) \o " " \o RelPath(kind, name)),
       Line("manual", "git add .gitmodules"),
       Line("manual", "git commit -m \"Add " \o name \o " as a submodule\"") >>

Pending == [state |-> "pending", error |-> ""]
Resolved == [state |-> "resolved", error |-> ""]
Rejected(e) == [state |-> "rejected", error |-> e]

Reject(e) == /\ outcome' = Rejected(e)
             /\ pc' = "done"

-----------------------------------------------------------------------------
(* create: the steps of createApp / createUtility, in program order *)

IsApp == config.kind = "app"
Requested == RepoString(config.githubRepo[1], config.githubRepo[2])
ProjectAt == ProjectPath(workspaceRoot, config.kind, config.name)

\* const workspaceRoot = await findGitRoot()   (createApp: outside the try;
\* createUtility: caught, falling back to path.resolve(process.cwd(), '../../..'))
FindWorkspace ==
    /\ UNCHANGED managerVars
    /\ pc = "start"
    /\ LET r == FindGitRoot(fsWorld, cwd)
       IN  IF r.ok
           THEN /\ workspaceRoot' = r.root
                /\ pc' = "checkDir"
                /\ Say(<<Line("root", "Found Git repository root")>>)
                /\ UNCHANGED outcome
           ELSE IF IsApp
                THEN /\ Reject(r.err)
                     /\ UNCHANGED <<workspaceRoot, printed>>
                ELSE /\ workspaceRoot' = Resolve(cwd, <<"..", "..", "..">>)
                     /\ pc' = "checkDir"
                     /\ Say(<<Line("root", "Using fallback workspace root")>>)
                     /\ UNCHANGED outcome
    /\ UNCHANGED <<fsWorld, cwd, located, config, actualGithubRepo, useOrg, projectDir,
                   localRepo, github, workspaceRepo, pushSuccess, branchIdx, calls>>

\* try { await fs.access(path); throw new Error('Directory already exists') }
\* catch (error) { console.log('Target directory is available') }
\* the catch takes the thrown Error as well as the failure of fs.access
DirectoryCheckAborts(exists) == FALSE

CheckDirectory ==
    /\ UNCHANGED managerVars
    /\ pc = "checkDir"
    /\ LET exists == projectDir # "absent"
       IN  /\ Log(<<Call("fs.access", "", "", IF exists THEN "ok" ELSE "ENOENT")>>)
           /\ IF DirectoryCheckAborts(exists)
              THEN /\ Reject("Directory already exists")
                   /\ UNCHANGED printed
              ELSE /\ Say(<<Line("dir", "Target directory is available")>>)
                   /\ pc' = IF config.createGithubRepo /\ config.githubToken
                            THEN "getUsername" ELSE "mkdir"
                   /\ UNCHANGED outcome
    /\ UNCHANGED <<fsWorld, cwd, located, config, workspaceRoot, actualGithubRepo, useOrg,
                   projectDir, localRepo, github, workspaceRepo, pushSuccess, branchIdx>>

\* const useOrg = orgOrUser !== username ? orgOrUser : undefined
UseOrg(orgOrUser, username) == IF orgOrUser # username THEN orgOrUser ELSE NoOrg

\* const username = await getGitHubUsername(githubToken), then the entry of
\* createGitHubRepository: if (org) { ... }
GetUsername ==
    /\ UNCHANGED managerVars
    /\ pc = "getUsername"
    /\ \E ans \in {"ok", "error"} :
        /\ Log(<<Call("getGitHubUsername", "", "", ans)>>)
        /\ IF ans = "ok"
           THEN /\ useOrg' = UseOrg(config.githubRepo[1], Username)
                /\ pc' = IF useOrg' # NoOrg THEN "orgsGet" ELSE "createForUser"
                /\ UNCHANGED outcome
           ELSE /\ Reject("Failed to create: could not get GitHub username")
                /\ UNCHANGED useOrg
    /\ UNCHANGED <<fsWorld, cwd, located, config, workspaceRoot, actualGithubRepo,
                   projectDir, localRepo, github, workspaceRepo, pushSuccess, branchIdx,
                   printed>>

FallbackNotice ==
    << Line("fallback", "Could not create repository in organization: " \o useOrg),
       Line("fallback", "Creating repository in your personal account instead...") >>

\* bug variant: the 'already exists' test never matches
IsNameConflictNever(ans) == FALSE

\* the test of the two catch blocks of createGitHubRepository: status 422 and an
\* error message that includes 'already exists'
IsNameConflict(ans) == ans = "422 already exists"

\* bug variant: every failure of the organization attempt falls back
OrgFailureNeverFatal(ans) == FALSE

\* what the catch around the organization attempt does with a failure:
\* throw (fatal) or fall through to the personal account
OrgFailureIsFatal(ans) == IsNameConflict(ans)

ErrConflictOrg ==
    "Failed to create GitHub repository: Repository name '" \o config.githubRepo[2]
        \o "' already exists in organization " \o useOrg
ErrConflictUser ==
    "Failed to create GitHub repository: Repository name '" \o config.githubRepo[2]
        \o "' already exists in your account"
ErrGitHub == "Failed to create GitHub repository: request failed"

\* await octokit.rest.orgs.get({ org })
OrgsGet ==
    /\ UNCHANGED managerVars
    /\ pc = "orgsGet"
    /\ \E ans \in {"ok", "404", "403"} :
        /\ Log(<<Call("orgs.get", "", useOrg, ans)>>)
        /\ IF ans = "ok"
           THEN /\ pc' = "createInOrg"
                /\ UNCHANGED <<printed, outcome>>
           ELSE IF OrgFailureIsFatal(ans)
                THEN /\ Reject(ErrConflictOrg)
                     /\ UNCHANGED printed
                ELSE /\ Say(FallbackNotice)
                     /\ pc' = "createForUser"
                     /\ UNCHANGED outcome
    /\ UNCHANGED <<fsWorld, cwd, located, config, workspaceRoot, actualGithubRepo, useOrg,
                   projectDir, localRepo, github, workspaceRepo, pushSuccess, branchIdx>>

\* await octokit.rest.repos.createInOrg({ org, name, ... }); return `${org}/${name}`
CreateInOrg ==
    /\ UNCHANGED managerVars
    /\ pc = "createInOrg"
    /\ \E ans \in {"created", "422 already exists", "403", "422 other"} :
        /\ Log(<<Call("repos.createInOrg", "", RepoString(useOrg, config.githubRepo[2]), ans)>>)
        /\ IF ans = "created"
           THEN /\ actualGithubRepo' = RepoString(useOrg, config.githubRepo[2])
                /\ github' = [github EXCEPT !.created =
                                 @ \cup {RepoString(useOrg, config.githubRepo[2])}]
                /\ Say(<<Line("created", "Created repository in organization: " \o actualGithubRepo')>>)
                /\ pc' = "mkdir"
                /\ UNCHANGED outcome
           ELSE IF OrgFailureIsFatal(ans)
                THEN /\ Reject(ErrConflictOrg)
                     /\ UNCHANGED <<actualGithubRepo, github, printed>>
                ELSE /\ Say(FallbackNotice)
                     /\ pc' = "createForUser"
                     /\ UNCHANGED <<actualGithubRepo, github, outcome>>
    /\ UNCHANGED <<fsWorld, cwd, located, config, workspaceRoot, useOrg,
                   projectDir, localRepo, workspaceRepo, pushSuccess, branchIdx>>

\* bug variant: the requested organization is returned after the fallback
PersonalRepoAsRequested(login, org, name) ==
    RepoString(IF org # "" THEN org ELSE login, name)

\* the identity returned after creation under the personal account:
\* `${data.owner.login}/${name}`
PersonalRepo(login, org, name) == RepoString(login, name)

\* await octokit.rest.repos.createForAuthenticatedUser({ name, ... })
CreateForUser ==
    /\ UNCHANGED managerVars
    /\ pc = "createForUser"
    /\ \E ans \in {"created", "422 already exists", "401"} :
        /\ Log(<<Call("repos.createForAuthenticatedUser", "",
                      RepoString(Username, config.githubRepo[2]), ans)>>)
        /\ IF ans = "created"
           THEN /\ actualGithubRepo' = PersonalRepo(Username, useOrg, config.githubRepo[2])
                /\ github' = [github EXCEPT !.created =
                                 @ \cup {RepoString(Username, config.githubRepo[2])}]
                /\ Say(<<Line("created", "Created repository in your personal account: "
                                             \o actualGithubRepo')>>)
                /\ pc' = "mkdir"
                /\ UNCHANGED outcome
           ELSE /\ Reject(IF IsNameConflict(ans) THEN ErrConflictUser ELSE ErrGitHub)
                /\ UNCHANGED <<actualGithubRepo, github, printed>>
    /\ UNCHANGED <<fsWorld, cwd, located, config, workspaceRoot, useOrg,
                   projectDir, localRepo, workspaceRepo, pushSuccess, branchIdx>>

\* await fs.mkdir(path, { recursive: true }); await generateProjectFiles(...)
\* a recursive mkdir of an existing directory succeeds; the templates are
\* then written into whatever directory is there
MakeProject ==
    /\ UNCHANGED managerVars
    /\ pc = "mkdir"
    /\ Log(<<Call("fs.mkdir", "", RelPath(config.kind, config.name), "ok"),
             Call("generateProjectFiles", "", RelPath(config.kind, config.name), "ok")>>)
    /\ projectDir' = IF projectDir = "absent" THEN "generated" ELSE "overwritten"
    /\ Say(<<Line("files", "Project files generated")>>)
    /\ pc' = "gitInit"
    /\ UNCHANGED <<fsWorld, cwd, located, config, workspaceRoot, actualGithubRepo, useOrg,
                   localRepo, github, workspaceRepo, pushSuccess, branchIdx, outcome>>

\* bug variant: the remote is set up whether or not one was asked for
AlwaysSetsRemote(createGithubRepo) == "setRemote"

\* if (createGithubRepo) { remote, push, submodule } else { the local notice }
AfterInit(createGithubRepo) == IF createGithubRepo THEN "setRemote" ELSE "finish"

\* await git.init(); await git.add('.'); await git.commit('Initial commit')
\* (git init in an existing repository keeps its remotes)
InitRepository ==
    /\ UNCHANGED managerVars
    /\ pc = "gitInit"
    /\ Log(<<Call("git.init", "", "", "ok"), Call("git.commit", "", "Initial commit", "ok")>>)
    /\ localRepo' = [exists |-> TRUE, initialCommit |-> TRUE, origin |-> localRepo.origin]
    /\ pc' = AfterInit(config.createGithubRepo)
    /\ UNCHANGED <<fsWorld, cwd, located, config, workspaceRoot, actualGithubRepo, useOrg,
                   projectDir, github, workspaceRepo, pushSuccess, branchIdx, printed,
                   outcome>>

OriginUrl == RepoUrl(OriginRepo(Requested, actualGithubRepo))
SubmoduleUrl == RepoUrl(SubmoduleRepo(Requested, actualGithubRepo))

\* whether an existing 'origin' is removed before the new one is added
RemovesStaleOrigin(originExists) == originExists

\* getRemotes(); if origin exists, remote remove origin; addRemote('origin', url)
\* any failure lands in the catch around remote set-up and push: no push is made
SetRemote ==
    /\ UNCHANGED managerVars
    /\ pc = "setRemote"
    /\ LET originExists == localRepo.origin # ""
           removal == IF RemovesStaleOrigin(originExists)
                      THEN <<Call("git.remote remove", "", "origin", "ok")>> ELSE <<>>
       IN \E ans \in {"ok", "error"} :
           \* git refuses to add a remote that is still configured
           /\ (originExists /\ ~RemovesStaleOrigin(originExists)) => ans = "error"
           /\ Log(<<Call("git.getRemotes", "", "", "ok")>> \o removal
                  \o <<Call("git.addRemote", OriginUrl, "origin", ans)>>)
           /\ IF ans = "ok"
              THEN /\ localRepo' = [localRepo EXCEPT !.origin = OriginUrl]
                   /\ pc' = "push"
                   /\ UNCHANGED printed
              ELSE /\ localRepo' = [localRepo EXCEPT !.origin =
                                       IF RemovesStaleOrigin(originExists) THEN "" ELSE @]
                   /\ pc' = "revparse"
                   /\ Say(<<Line("remote-failed", "Failed to set up GitHub remote")>>)
    /\ UNCHANGED <<fsWorld, cwd, located, config, workspaceRoot, actualGithubRepo, useOrg,
                   projectDir, github, workspaceRepo, pushSuccess, branchIdx, outcome>>

\* bug variant: the loop has no break
NeverStops == FALSE

\* whether the candidates after a successful push are skipped (the break of the
\* loop in createApp; the nesting of the try blocks in createUtility)
StopsAtFirstSuccess == TRUE

\* what the push section prints when it is over
PushReport(ok) ==
    IF IsApp
    THEN IF ok THEN <<Line("push", "Initial commit pushed to GitHub")>>
         ELSE <<Line("push-failed", "Failed to push to GitHub. You may need to push manually later.")>>
    ELSE (IF ok THEN <<>>
          ELSE <<Line("push-failed", "Could not push to remote repository. You may need to push manually."),
                 Line("push-failed", "Run: git push -u origin main")>>)
         \o <<Line("push", "Git repository initialized with remote and initial commit pushed")>>

\* await git.push('origin', branch) for the next candidate of branchNames
Push ==
    /\ UNCHANGED managerVars
    /\ pc = "push"
    /\ branchIdx <= Len(BranchNames)
    /\ \E ans \in {"ok", "rejected"} :
        LET last == branchIdx = Len(BranchNames)
            success == pushSuccess \/ ans = "ok"
            over == last \/ (ans = "ok" /\ StopsAtFirstSuccess)
        IN  /\ Log(<<Call("git.push", localRepo.origin, BranchNames[branchIdx], ans)>>)
            /\ pushSuccess' = success
            /\ github' = IF ans = "ok"
                         THEN [github EXCEPT !.pushed = @ \cup {localRepo.origin}]
                         ELSE github
            /\ branchIdx' = branchIdx + 1
            /\ IF over
               THEN /\ pc' = "revparse"
                    /\ Say(PushReport(success))
               ELSE UNCHANGED <<pc, printed>>
    /\ UNCHANGED <<fsWorld, cwd, located, config, workspaceRoot, actualGithubRepo, useOrg,
                   projectDir, localRepo, workspaceRepo, outcome>>

\* what the catch around the whole submodule section prints
\* (createApp line 174; createUtility lines 428-433)
RegistrationSkipped ==
    IF IsApp
    THEN <<Line("not-added", "Failed to add as submodule")>>
    ELSE <<Line("not-added", "Could not add as submodule"),
           Line("not-added", "The project has been created but not added as a submodule.")>>
         \o ManualCommands(SubmoduleRepo(Requested, actualGithubRepo), config.kind, config.name)

\* bug variant: the registration starts without the wait
WithoutDelay == "clearPath"

\* what follows the check of the workspace repository: the wait for GitHub
AfterRevparse == "delay"

\* const mainGit = simpleGit({ baseDir: workspaceRoot }); await mainGit.revparse(['--git-dir'])
Revparse ==
    /\ UNCHANGED managerVars
    /\ pc = "revparse"
    /\ \E ans \in {"ok", "error"} :
        /\ ShowToplevel(fsWorld, workspaceRoot) = NoRepo => ans = "error"
        /\ Log(<<Call("git.revparse", "", "--git-dir", ans)>>)
        /\ IF ans = "ok"
           THEN /\ pc' = AfterRevparse
                /\ UNCHANGED printed
           ELSE /\ pc' = "finish"
                /\ Say(RegistrationSkipped)
    /\ UNCHANGED <<fsWorld, cwd, located, config, workspaceRoot, actualGithubRepo, useOrg,
                   projectDir, localRepo, github, workspaceRepo, pushSuccess, branchIdx,
                   outcome>>

\* await new Promise(resolve => setTimeout(resolve, 5000))   (3000 in createUtility)
Delay ==
    /\ UNCHANGED managerVars
    /\ pc = "delay"
    /\ Log(<<Call("setTimeout", "", IF IsApp THEN "5000" ELSE "3000", "ok")>>)
    /\ pc' = "clearPath"
    /\ UNCHANGED <<fsWorld, cwd, located, config, workspaceRoot, actualGithubRepo, useOrg,
                   projectDir, localRepo, github, workspaceRepo, pushSuccess, branchIdx,
                   printed, outcome>>

\* the absolute path the submodule is to be added at
SubmoduleAt == ProjectPath(workspaceRoot, config.kind, config.name)

\* what fs.rm(path, { recursive: true, force: true }) leaves at the path
RemoveDir(dir) == "absent"

\* stats = await fs.stat(submodulePath); if it is a directory and is the
\* project path, fs.rm(submodulePath, { recursive: true, force: true })
ClearPath ==
    /\ UNCHANGED managerVars
    /\ pc = "clearPath"
    /\ IF projectDir # "absent" /\ SubmoduleAt = ProjectAt
       THEN /\ Log(<<Call("fs.stat", "", RelPath(config.kind, config.name), "directory"),
                     Call("fs.rm", "", RelPath(config.kind, config.name), "ok")>>)
            /\ projectDir' = RemoveDir(projectDir)
            /\ localRepo' = IF projectDir' = "absent" THEN NoLocalRepo ELSE localRepo
            /\ Say(<<Line("rm", "Removing directory before adding as submodule...")>>)
       ELSE /\ Log(<<Call("fs.stat", "", RelPath(config.kind, config.name), "ENOENT")>>)
            /\ UNCHANGED <<projectDir, localRepo, printed>>
    /\ pc' = "submoduleAdd"
    /\ UNCHANGED <<fsWorld, cwd, located, config, workspaceRoot, actualGithubRepo, useOrg,
                   github, workspaceRepo, pushSuccess, branchIdx, outcome>>

\* what `git submodule add <url> <path>` leaves at the path: a fresh clone of
\* the remote, holding the initial commit only if it was pushed there
Cloned(url) == [exists |-> TRUE, initialCommit |-> url \in github.pushed, origin |-> url]

Registered == \E m \in workspaceRepo.submodules : m.path = RelPath(config.kind, config.name)

\* the answers of one registration attempt: createApp makes the add call alone;
\* createUtility follows it, inside the same try, with staging .gitmodules
\* and committing
AddAnswers == IF IsApp THEN {"ok", "add failed"} ELSE {"ok", "add failed", "commit failed"}

AddCalls(op, ans) ==
    <<Call(op, SubmoduleUrl, RelPath(config.kind, config.name),
           IF ans = "add failed" THEN "error" ELSE "ok")>>
    \o (IF IsApp \/ ans = "add failed" THEN <<>>
        ELSE <<Call("git add .gitmodules", "", "", "ok"),
               Call("git commit", "", "Add " \o config.name \o " as a submodule",
                    IF ans = "ok" THEN "ok" ELSE "error")>>)

\* the effect of an attempt on the workspace repository and the project path
AddEffect(ans) ==
    IF ans = "add failed"
    THEN UNCHANGED <<workspaceRepo, projectDir, localRepo>>
    ELSE /\ workspaceRepo' =
              [submodules |-> workspaceRepo.submodules
                                \cup {[path |-> RelPath(config.kind, config.name),
                                       url |-> SubmoduleUrl]},
               staged |-> TRUE,
               committed |-> workspaceRepo.committed \/ (~IsApp /\ ans = "ok")]
         /\ projectDir' = "cloned"
         /\ localRepo' = Cloned(SubmoduleUrl)

\* bug variant: the raw attempt is made whatever the structured attempt answered
RetriesRawAlways(ans) == TRUE

\* whether the raw attempt follows a structured attempt that ended with ans
RetriesRaw(ans) == ans # "ok"

\* await mainGit.submoduleAdd(url, path)   (createUtility: then mainGit.add('.gitmodules')
\* and mainGit.commit(...) in the same try)
SubmoduleAdd ==
    /\ UNCHANGED managerVars
    /\ pc = "submoduleAdd"
    /\ \E ans \in AddAnswers :
        /\ Log(AddCalls("submoduleAdd", ans))
        /\ AddEffect(ans)
        /\ IF RetriesRaw(ans)
           THEN /\ pc' = "rawAdd"
                /\ Say(<<Line("add-failed", "Failed to add submodule"),
                         Line("alt", "Attempting alternative method to add submodule...")>>)
           ELSE /\ pc' = "finish"
                /\ Say(<<Line("added", "Added as submodule successfully")>>)
    /\ UNCHANGED <<fsWorld, cwd, located, config, workspaceRoot, actualGithubRepo, useOrg,
                   github, pushSuccess, branchIdx, outcome>>

\* what is printed when the raw attempt failed too
BothFailed ==
    <<Line("alt-failed", "Alternative method also failed"),
      Line("not-added", "The project has been created but not added as a submodule."),
      Line("not-added", "To add it manually, run the following commands from your workspace root:")>>
    \o ManualCommands(SubmoduleRepo(Requested, actualGithubRepo), config.kind, config.name)

\* createApp: await mainGit.raw(['submodule', 'add', url, path])
\* createUtility: process.chdir(workspaceRoot); fs.rm(path, force);
\*   execSync(`git submodule add url path`); execSync(`git add .gitmodules`);
\*   execSync(`git commit ...`)
RawAdd ==
    /\ UNCHANGED managerVars
    /\ pc = "rawAdd"
    /\ \E ans \in AddAnswers :
        \* git refuses to add a path that is already in the index
        /\ Registered => ans = "add failed"
        /\ cwd' = IF IsApp THEN cwd ELSE workspaceRoot
        /\ Log((IF IsApp THEN <<>>
                ELSE <<Call("process.chdir", "", "workspaceRoot", "ok"),
                       Call("fs.rm", "", RelPath(config.kind, config.name), "ok")>>)
               \o AddCalls("raw submodule add", ans))
        /\ IF ans = "add failed"
           THEN /\ projectDir' = IF IsApp THEN projectDir ELSE RemoveDir(projectDir)
                /\ localRepo' = IF IsApp THEN localRepo ELSE NoLocalRepo
                /\ UNCHANGED workspaceRepo
           ELSE AddEffect(ans)
        /\ IF ans = "ok"
           THEN Say(<<Line("added", "Added as submodule successfully using alternative method")>>)
           ELSE Say(BothFailed)
    /\ pc' = "finish"
    /\ UNCHANGED <<fsWorld, located, config, workspaceRoot, actualGithubRepo, useOrg,
                   github, pushSuccess, branchIdx, outcome>>

\* the end of the function: the closing messages, and the promise resolves
Finish ==
    /\ UNCHANGED managerVars
    /\ pc = "finish"
    /\ Say((IF config.createGithubRepo THEN <<>>
            ELSE <<Line("local", "Git repository initialized locally")>>)
           \o (IF IsApp THEN <<Line("success", "Project created successfully!")>> ELSE <<>>))
    /\ outcome' = Resolved
    /\ pc' = "done"
    /\ UNCHANGED <<fsWorld, cwd, located, config, workspaceRoot, actualGithubRepo, useOrg,
                   projectDir, localRepo, github, workspaceRepo, pushSuccess, branchIdx,
                   calls>>

-----------------------------------------------------------------------------
(* The submodule manager: what git answers about one submodule *)

\* commits of a submodule's history: Base is the root, RemoteTip is what
\* origin/main points to at the remote, LocalCommit was made locally on top
\* of Base and never pushed; WorkspaceHead is the commit of the workspace
Base == "a1f3c07"
RemoteTip == "b7e2d19"
LocalCommit == "c40a6e5"
WorkspaceHead == "e93b5f2"
Commits == {Base, RemoteTip, LocalCommit}

IsAncestor(x, y) == x = y \/ x = Base

\* HEAD is on 'main' (which tracks origin/main), on a local branch without
\* upstream, or detached (git prints HEAD for --abbrev-ref)
Branches == {"main", "topic", "HEAD"}

\* uncommitted changes: none, changes a checkout of another commit carries
\* along (an untracked file), changes it would overwrite (git refuses)
Changes == {"none", "carried", "blocking"}

\* the segments of a path joined with '/'
RECURSIVE Slashed(_)
Slashed(p) ==
    IF Len(p) = 0 THEN ""
    ELSE IF Len(p) = 1 THEN p[1]
    ELSE p[1] \o "/" \o Slashed(Tail(p))

\* git submodule status: one line per gitlink of the index
SubmoduleStatus == DOMAIN modules

\* the repository git -C <path> works on: the submodule, or, in a directory
\* that deinit emptied, the enclosing work tree, which is the workspace (taken
\* to be clean, on main and level with its remote)
WorkTreeAt(m) ==
    IF m.initialized THEN m
    ELSE [m EXCEPT !.head = WorkspaceHead, !.branch = "main",
                   !.upstreamRef = WorkspaceHead, !.changes = "none"]

\* git -C <path> rev-parse HEAD
RevParseHead(m) == WorkTreeAt(m).head

\* git -C <path> rev-parse --abbrev-ref HEAD
AbbrevRef(m) == WorkTreeAt(m).branch

\* git -C <path> rev-parse --abbrev-ref --symbolic-full-name @{u} 2>/dev/null || echo ''
TrackingBranch(m) == IF WorkTreeAt(m).branch = "main" THEN "origin/main" ELSE ""

\* git -C <path> status --porcelain has output
HasChanges(m) == WorkTreeAt(m).changes # "none"

\* git -C <path> log @{u}..@ --oneline 2>/dev/null || true has output
HasUnpushedChanges(m) ==
    TrackingBranch(m) # "" /\ ~IsAncestor(WorkTreeAt(m).head, WorkTreeAt(m).upstreamRef)

\* git submodule update --init "<path>" on an initialised submodule: nothing
\* to do when HEAD is the commit the workspace records; otherwise the recorded
\* commit is checked out with a detached HEAD, which git refuses when local
\* changes would be overwritten
CheckoutRefused(m) == m.head # m.recorded /\ m.changes = "blocking"

CheckedOut(m) ==
    IF m.head = m.recorded THEN m
    ELSE [m EXCEPT !.head = m.recorded, !.branch = "HEAD"]

\* the clone that git submodule update --init makes of a submodule that is
\* not initialised
FreshClone(m) ==
    [m EXCEPT !.initialized = TRUE, !.head = m.recorded, !.branch = "HEAD",
              !.upstreamRef = RemoteTip, !.changes = "none"]

\* git fetch --all: origin/main follows the remote
Fetched(m) == [m EXCEPT !.upstreamRef = RemoteTip]

\* git merge --ff-only @{u}; in an emptied directory it is the workspace
\* that is merged, the submodule is not touched
CanFastForward(m) == IsAncestor(WorkTreeAt(m).head, WorkTreeAt(m).upstreamRef)
FastForwarded(m) == IF m.initialized THEN [m EXCEPT !.head = m.upstreamRef] ELSE m

\* the states a registered, initialised submodule can be found in: the
\* remote's tip is known locally exactly when it was fetched to be checked
\* out or recorded, and the workspace records a local commit only while it
\* is checked out
ModuleStates ==
    {m \in [head : Commits, branch : Branches, upstreamRef : {Base, RemoteTip},
            recorded : Commits, changes : Changes, initialized : {TRUE},
            conflicted : {FALSE}] :
        /\ m.upstreamRef = RemoteTip <=> RemoteTip \in {m.head, m.recorded}
        /\ m.recorded = LocalCommit => m.head = LocalCommit}

\* the states drawn for each submodule of a workspace with several
TypicalStates ==
    {m \in ModuleStates :
        /\ m.recorded = Base
        /\ m.head # RemoteTip
        /\ m.changes # "blocking"
        /\ m.branch # "topic"
        /\ m.head = LocalCommit => m.branch = "main" /\ m.changes = "none"}

-----------------------------------------------------------------------------
(* The submodule manager: helpers shared by its commands *)

\* no submodule command runs; no submodule is registered
NoJob == [cmd |-> "none"]
NoModules == [p \in {} |-> 0]

createLocals == <<config, workspaceRoot, actualGithubRepo, useOrg, projectDir, localRepo,
                  github, workspaceRepo, pushSuccess, branchIdx>>

\* process.exit(1)
Exited == [state |-> "exited", error |-> "1"]

\* the exit status of the process, given how the command's promise settled:
\* an uncaught error and process.exit(1) give 1, a normal return gives 0
ExitStatus(o) == IF o.state \in {"rejected", "exited"} THEN 1 ELSE 0

\* findGitRoot() as the running process calls it: from a working directory
\* that was deleted, git rev-parse fails
FindGitRootHere ==
    IF cwd \in Directories(fsWorld) THEN FindGitRoot(fsWorld, cwd) ELSE Thrown(ErrNotGit)

\* execFromGitRoot: chdir(gitRoot), run, and in the finally chdir(currentDir);
\* the directory the process is in afterwards
AfterExecFromGitRoot(currentDir, gitRoot) == currentDir

\* handleNettieRepoError: the two messages of findGitRoot end the process
\* with status 1, any other error is thrown on
HandleNettieRepoError(e) ==
    IF e \in {ErrNotNettie, ErrNotGit}
    THEN /\ Say(<<Line("error", e)>>)
         /\ outcome' = Exited
    ELSE /\ UNCHANGED printed
         /\ outcome' = Rejected(e)

\* the order in which git submodule status lists the gitlinks
PathOrder ==
    <<<<"apps", "lib">>, <<"apps", "panel">>, <<"lib">>, <<"utilities", "frontend", "fid">>,
      <<"utilities", "frontend", "lib">>>>

StatusLines == SelectSeq(PathOrder, LAMBDA p : p \in SubmoduleStatus)

\* a path that names no submodule and no directory
GhostPath == <<"apps", "ghost">>

ErrGitCommand == "Command failed"

-----------------------------------------------------------------------------
(* nettie submodule update [path] *)

NoArg == <<>>

\* line 114-143: locate the workspace, chdir there, list the submodules to
\* process, record their commit and branch
UpdateStart(arg) ==
    /\ pc = "idle"
    /\ LET r == FindGitRootHere IN
       IF ~r.ok
       THEN /\ HandleNettieRepoError(r.err)
            /\ pc' = "ended"
            /\ job' = [cmd |-> "update", arg |-> arg, shellDir |-> cwd]
            /\ UNCHANGED <<cwd, calls>>
       ELSE LET gitRoot == ShowToplevel(fsWorld, r.root)
                submodules == IF arg # NoArg THEN <<arg>> ELSE StatusLines
                initialStates ==
                    [q \in {submodules[i] : i \in DOMAIN submodules} |->
                        IF q \in DOMAIN modules
                        THEN [commit |-> RevParseHead(modules[q]),
                              branch |-> AbbrevRef(modules[q])]
                        ELSE [commit |-> "", branch |-> ""]]
            IN  /\ cwd' = gitRoot
                /\ Log(<<Call("process.chdir", "", Slashed(gitRoot), "ok")>>)
                /\ job' = [cmd |-> "update", arg |-> arg, shellDir |-> cwd,
                           submodules |-> submodules, initialStates |-> initialStates,
                           idx |-> 1, hasConflicts |-> FALSE]
                /\ IF submodules = <<>>
                   THEN /\ Say(<<Line("none", "No submodules found.")>>)
                        /\ outcome' = Resolved
                        /\ pc' = "ended"
                   ELSE /\ UNCHANGED <<printed, outcome>>
                        /\ pc' = "upd.fetch"
    /\ UNCHANGED <<fsWorld, located, modules, history>>
    /\ UNCHANGED createLocals

\* bug variant: the loops run through the list backwards
CurrentFromEnd == job.submodules[Len(job.submodules) + 1 - job.idx]

\* the submodule the running loop is at
Current == job.submodules[job.idx]

\* the end of one iteration of a for loop over the submodules
NextInLoop(j, after) ==
    IF j.idx < Len(j.submodules)
    THEN /\ job' = [j EXCEPT !.idx = j.idx + 1]
         /\ UNCHANGED pc
    ELSE /\ job' = [j EXCEPT !.idx = 1]
         /\ pc' = after

CouldNotFetch(path) == Line("could-not-fetch", Slashed(path))

\* lines 141-175, one iteration of the first loop: git submodule update
\* --init, remote update and fetch, the tracking branches; whatever throws
\* is caught and reported, and the loop goes on
UpdateFetch ==
    /\ pc = "upd.fetch"
    /\ LET path == Current IN
       \E init \in {"ok", "error"}, fetch \in {"ok", "error"} :
        /\ IF path \notin DOMAIN modules
           THEN \* pathspec did not match any file known to git
                /\ init = "error" /\ fetch = "error"
                /\ UNCHANGED <<modules, fsWorld>>
                /\ Log(<<Call("submodule update --init", "", Slashed(path), "error")>>)
           ELSE LET m == modules[path]
                    \* the clone of a submodule that is not initialised may fail;
                    \* the checkout of an initialised one is refused or not
                    initOk == IF m.initialized THEN ~CheckoutRefused(m) ELSE init = "ok"
                    m1 == IF ~initOk THEN m
                          ELSE IF m.initialized THEN CheckedOut(m) ELSE FreshClone(m)
                    m2 == IF initOk /\ fetch = "ok" THEN Fetched(m1) ELSE m1
                IN  /\ m.initialized => init = "ok"
                    /\ ~initOk => fetch = "error"
                    /\ modules' = [modules EXCEPT ![path] = m2]
                    /\ fsWorld' = IF m2.initialized
                                  THEN [fsWorld EXCEPT !.subs = @ \cup {path},
                                                       !.emptied = @ \ {path}]
                                  ELSE fsWorld
                    /\ Log(<<Call("submodule update --init", "", Slashed(path),
                                  IF initOk THEN "ok" ELSE "error")>>
                           \o (IF initOk
                               THEN <<Call("fetch --all", "", Slashed(path), fetch)>>
                               ELSE <<>>)
                           \o (IF initOk /\ fetch = "ok"
                               THEN <<Call("rev-parse --verify main", "", Slashed(path), "ok")>>
                               ELSE <<>>))
        /\ Say(<<Line("fetching", Slashed(path)),
                 IF fetch = "ok" THEN Line("fetched", Slashed(path)) ELSE CouldNotFetch(path)>>)
    /\ NextInLoop(job, "upd.status")
    /\ UNCHANGED <<cwd, located, outcome, history>>
    /\ UNCHANGED createLocals

\* lines 178-182: hasChanges and hasUnpushedChanges of every submodule; this
\* is outside the inner try blocks, so a git that fails here (the path is no
\* directory) ends the command through the outer catch
UpdateStatus ==
    /\ pc = "upd.status"
    /\ LET paths == {job.submodules[i] : i \in DOMAIN job.submodules} IN
       IF \E q \in paths : q \notin DOMAIN modules
       THEN /\ HandleNettieRepoError(ErrGitCommand)
            /\ pc' = "ended"
            /\ UNCHANGED job
       ELSE /\ job' = [job EXCEPT !.idx = 1] @@
                      [statuses |->
                          [q \in paths |->
                              [hasChanges |-> HasChanges(modules[q]),
                               hasUnpushedChanges |-> HasUnpushedChanges(modules[q])]]]
            /\ Say(<<Line("updating", "Updating submodules...")>>)
            /\ pc' = "upd.merge"
            /\ UNCHANGED outcome
    /\ UNCHANGED <<fsWorld, cwd, located, calls, modules, history>>
    /\ UNCHANGED createLocals

\* what the catch of the merge does to hasConflicts (line 230)
MergeFailureIgnored == FALSE
MergeFailureIsConflict == TRUE

\* lines 188-231, one iteration of the second loop
UpdateMerge ==
    /\ pc = "upd.merge"
    /\ LET path == Current
           m == modules[path]
           status == job.statuses[path]
           initialState == job.initialStates[path]
           flagged(j, b) == [j EXCEPT !.hasConflicts = @ \/ b]
       IN
       IF status.hasChanges \/ status.hasUnpushedChanges
       THEN /\ Say(<<Line("conflict", Slashed(path))>>)
            /\ NextInLoop(flagged(job, TRUE), "upd.finish")
            /\ UNCHANGED <<modules, calls>>
       ELSE IF TrackingBranch(m) = ""
       THEN \* continue: hasConflicts is left as it is
            /\ Say(<<Line("no-tracking", Slashed(path))>>)
            /\ NextInLoop(job, "upd.finish")
            /\ UNCHANGED <<modules, calls>>
       ELSE \E ans \in {"ok", "error"} :
            /\ ~CanFastForward(m) => ans = "error"
            /\ Log(<<Call("merge --ff-only", "", Slashed(path), ans)>>)
            /\ IF ans = "ok"
               THEN /\ modules' = [modules EXCEPT ![path] = FastForwarded(m)]
                    /\ Say(<<Line(IF RevParseHead(FastForwarded(m)) # initialState.commit
                                  THEN "updated" ELSE "unchanged", Slashed(path))>>)
                    /\ NextInLoop(job, "upd.finish")
               ELSE /\ UNCHANGED modules
                    /\ Say(<<Line("failed", Slashed(path))>>)
                    /\ NextInLoop(flagged(job, MergeFailureIsConflict), "upd.finish")
    /\ UNCHANGED <<fsWorld, cwd, located, outcome, history>>
    /\ UNCHANGED createLocals

\* lines 234-245: the closing message, and the function returns
UpdateFinish ==
    /\ pc = "upd.finish"
    /\ Say(<<IF job.hasConflicts
             THEN Line("attention", "Some submodules need attention:")
             ELSE Line("all-updated", "All submodules updated successfully!")>>)
    /\ outcome' = Resolved
    /\ pc' = "ended"
    /\ UNCHANGED <<fsWorld, cwd, located, calls, modules, job, history>>
    /\ UNCHANGED createLocals

-----------------------------------------------------------------------------
(* nettie submodule list *)

\* the forty hexadecimal digits git prints for a commit
Digits(c) ==
    (CASE c = Base -> <<"a", "1", "f", "3", "c", "0", "7">>
       [] c = RemoteTip -> <<"b", "7", "e", "2", "d", "1", "9">>
       [] c = LocalCommit -> <<"c", "4", "0", "a", "6", "e", "5">>
       [] c = WorkspaceHead -> <<"e", "9", "3", "b", "5", "f", "2">>
       [] OTHER -> <<"0", "0", "0", "0", "0", "0", "0">>)
    \o [i \in 1..33 |-> "0"]

NoDescription == ""

\* the all-zero commit git prints for a gitlink with a merge conflict
Unmerged == "0000000"

\* the characters as one string
RECURSIVE Text(_)
Text(chars) == IF chars = <<>> THEN "" ELSE chars[1] \o Text(Tail(chars))

\* one line of git submodule status: a prefix character (' ' in step with
\* the index, '+' another commit checked out, '-' not initialised, 'U' merge
\* conflict), the commit, the path and, for an initialised submodule, the
\* description of the commit in parentheses
StatusLine(path, m) ==
    IF m.conflicted
    THEN [prefix |-> "U", sha |-> Digits(Unmerged), path |-> path, described |-> NoDescription]
    ELSE IF ~m.initialized
    THEN [prefix |-> "-", sha |-> Digits(m.recorded), path |-> path,
          described |-> NoDescription]
    ELSE [prefix |-> IF m.head = m.recorded THEN " " ELSE "+",
          sha |-> Digits(m.head), path |-> path,
          described |-> IF m.branch = "HEAD" THEN "remotes/origin/main"
                        ELSE "heads/" \o m.branch]

\* the output of git submodule status
StatusOutput == [i \in DOMAIN StatusLines |-> StatusLine(StatusLines[i], modules[StatusLines[i]])]

\* git config --file .gitmodules --get-regexp url, for the submodule named
\* after its path
GitmodulesUrl(path) == RepoUrl(RepoString(OrgName, path[Len(path)]))

\* parts[1].substr(0, 7)
ShortLen == 7
Substr(digits) == SubSeq(digits, 1, ShortLen)

NotParsed == [parsed |-> FALSE]

\* a parser that takes every line for a record
MatchesAlways(line) == TRUE

\* the regular expression of line 82 on the trimmed line: an optional blank,
\* '+' or '-', then hexadecimal digits; 'U' is none of these
Matches(line) == line.prefix \in {" ", "+", "-"}

\* lines 80-90: the record of a status line, or null
ParseStatusLine(line) ==
    IF ~Matches(line) THEN NotParsed
    ELSE [parsed |-> TRUE,
          commit |-> Text(Substr(line.sha)),
          path |-> line.path,
          branch |-> IF line.described # NoDescription THEN line.described ELSE "N/A",
          url |-> GitmodulesUrl(line.path)]

\* lines 78-91: the records of the lines that parse, in the order of the lines
ParsedRecords(output) ==
    SelectSeq([i \in DOMAIN output |-> ParseStatusLine(output[i])], LAMBDA r : r.parsed)

\* lines 94-100: the four lines printed for every record
RECURSIVE Display(_)
Display(records) ==
    IF records = <<>> THEN <<>>
    ELSE <<Line("submodule", Slashed(records[1].path)),
           Line("url", records[1].url),
           Line("commit", records[1].commit),
           Line("branch", records[1].branch)>> \o Display(Tail(records))

\* the whole of listSubmodules: the heading, findGitRoot, one block per
\* record parsed from git submodule status
ListSubmodules ==
    /\ pc = "idle"
    /\ job' = [cmd |-> "list", arg |-> NoArg, shellDir |-> cwd]
    /\ LET r == FindGitRootHere
           heading == <<Line("listing", "Listing all submodules in the repository:")>>
       IN
       IF ~r.ok
       THEN /\ printed' = printed \o heading \o <<Line("error", r.err)>>
            /\ outcome' = Exited
            /\ UNCHANGED calls
       ELSE /\ Log(<<Call("git submodule status", "", "", "ok")>>)
            /\ outcome' = Resolved
            /\ printed' = printed \o heading \o
                  (IF StatusOutput = <<>>
                   THEN <<Line("none", "No submodules found in this repository.")>>
                   ELSE Display(ParsedRecords(StatusOutput)))
    /\ cwd' = AfterExecFromGitRoot(cwd, FindGitRootHere.root)
    /\ pc' = "ended"
    /\ UNCHANGED <<fsWorld, located, modules, history>>
    /\ UNCHANGED createLocals

-----------------------------------------------------------------------------
(* nettie submodule remove [path] *)

\* lines 269-275 (and 350-356): the paths of the lines of git submodule
\* status that the regular expression matches, in the order of the lines
ListedPaths ==
    LET records == ParsedRecords(StatusOutput)
    IN [i \in DOMAIN records |-> records[i].path]

\* path.endsWith('/' + submodulePath)
EndsWithSlash(path, name) ==
    /\ Len(name) < Len(path)
    /\ SubSeq(path, Len(path) - Len(name) + 1, Len(path)) = name

NotFound == <<"<not found>">>

ErrDoesNotExist(arg) == "Submodule '" \o Slashed(arg) \o "' does not exist"

\* the path taken for the argument although no submodule is registered there
ResolveUnchecked(arg) == arg

\* lines 276-285: the argument if it is a registered path, else the first
\* registered path that ends with '/' + argument, else the error
ResolvePath(arg) ==
    IF \E i \in DOMAIN ListedPaths : ListedPaths[i] = arg THEN arg
    ELSE LET matching == SelectSeq(ListedPaths, LAMBDA q : EndsWithSlash(q, arg))
         IN  IF matching # <<>> THEN matching[1] ELSE NotFound

\* lines 256-285: the selection prompt when no path was given, findGitRoot,
\* the resolution of the path against git submodule status
RemoveStart(arg) ==
    /\ pc = "idle"
    /\ LET r == FindGitRootHere
           base == [cmd |-> "remove", arg |-> arg, shellDir |-> cwd]
       IN
       IF arg = NoArg /\ (~r.ok \/ ListedPaths = <<>>)
       THEN \* promptSubmoduleSelection returned undefined
            /\ Say(<<Line(IF r.ok THEN "none" ELSE "error-listing", ""),
                     Line("cancelled", "No submodule selected. Operation cancelled.")>>)
            /\ outcome' = Resolved
            /\ pc' = "ended"
            /\ job' = base
            /\ UNCHANGED calls
       ELSE \E selected \in (IF arg = NoArg
                              THEN {ListedPaths[i] : i \in DOMAIN ListedPaths}
                              ELSE {arg}) :
            /\ Log(IF arg = NoArg
                   THEN <<Call("prompt", "", "select", Slashed(selected))>>
                   ELSE <<>>)
            /\ IF ~r.ok
               THEN /\ HandleNettieRepoError(r.err)
                    /\ pc' = "ended"
                    /\ job' = base
               ELSE IF ResolvePath(selected) = NotFound
               THEN /\ HandleNettieRepoError(ErrDoesNotExist(selected))
                    /\ pc' = "ended"
                    /\ job' = base
               ELSE /\ job' = base @@ [path |-> ResolvePath(selected), gitRoot |-> r.root]
                    /\ pc' = "rm.confirm"
                    /\ UNCHANGED <<printed, outcome>>
    /\ cwd' = AfterExecFromGitRoot(cwd, FindGitRootHere.root)
    /\ UNCHANGED <<fsWorld, located, modules, history>>
    /\ UNCHANGED createLocals

\* whether the removal goes on after the answer to 'Are you sure ...?'
GoesOn(confirm) == confirm

\* lines 288-301: the confirmation
RemoveConfirm ==
    /\ pc = "rm.confirm"
    /\ \E confirm \in BOOLEAN :
        /\ Log(<<Call("prompt", "", "confirm", IF confirm THEN "yes" ELSE "no")>>)
        /\ IF GoesOn(confirm)
           THEN /\ Say(<<Line("removing", Slashed(job.path))>>)
                /\ pc' = "rm.deinit"
                /\ UNCHANGED outcome
           ELSE /\ Say(<<Line("cancelled", "Operation cancelled.")>>)
                /\ outcome' = Resolved
                /\ pc' = "ended"
    /\ UNCHANGED <<fsWorld, cwd, located, modules, job, history>>
    /\ UNCHANGED createLocals

\* where the command is after a step that threw, if it went on regardless
GoesToNextStep(next) == next

\* execSync throws, the outer catch hands the error to handleNettieRepoError,
\* which throws it on: the command is over
AfterFailedStep(next) == "ended"

\* one of the four execFromGitRoot calls of lines 306-309
RemoveStep(op, ans, next) ==
    /\ Log(<<Call(op, "", Slashed(job.path), ans)>>)
    /\ IF ans = "ok"
       THEN /\ pc' = next
            /\ UNCHANGED outcome
            /\ IF next = "rm.askDelete"
               THEN Say(<<Line("removed", Slashed(job.path))>>)
               ELSE UNCHANGED printed
       ELSE /\ pc' = AfterFailedStep(next)
            /\ IF AfterFailedStep(next) = "ended"
               THEN HandleNettieRepoError(ErrGitCommand)
               ELSE UNCHANGED <<printed, outcome>>
    /\ cwd' = AfterExecFromGitRoot(cwd, job.gitRoot)
    /\ UNCHANGED <<located, job, history>>
    /\ UNCHANGED createLocals

\* what git submodule deinit -f leaves of a submodule: the gitlink and the
\* recorded commit stay, the work tree is emptied
Deinitialized(m) ==
    [m EXCEPT !.initialized = FALSE, !.head = m.recorded, !.branch = "HEAD",
              !.changes = "none"]

\* git submodule deinit -f <path>
RemoveDeinit ==
    /\ pc = "rm.deinit"
    /\ \E ans \in {"ok", "error"} :
        /\ job.path \notin DOMAIN modules => ans = "error"
        /\ RemoveStep("git submodule deinit -f", ans, "rm.index")
        /\ IF ans = "ok"
           THEN /\ modules' = [modules EXCEPT ![job.path] = Deinitialized(@)]
                /\ fsWorld' = [fsWorld EXCEPT !.subs = @ \ {job.path},
                                              !.emptied = @ \cup {job.path}]
           ELSE UNCHANGED <<modules, fsWorld>>

\* git rm -f <path>: the gitlink leaves the index, the section leaves
\* .gitmodules, the directory is deleted
RemoveFromIndex ==
    /\ pc = "rm.index"
    /\ \E ans \in {"ok", "error"} :
        /\ job.path \notin DOMAIN modules => ans = "error"
        /\ RemoveStep("git rm -f", ans, "rm.purge")
        /\ IF ans = "ok"
           THEN /\ modules' = [q \in DOMAIN modules \ {job.path} |-> modules[q]]
                /\ fsWorld' = [fsWorld EXCEPT !.subs = @ \ {job.path},
                                              !.emptied = @ \ {job.path}]
           ELSE UNCHANGED <<modules, fsWorld>>

\* rm -rf .git/modules/<path>
RemovePurge ==
    /\ pc = "rm.purge"
    /\ \E ans \in {"ok", "error"} : RemoveStep("rm -rf .git/modules", ans, "rm.commit")
    /\ UNCHANGED <<modules, fsWorld>>

\* git commit -m "Remove submodule <path>", then the success message
RemoveCommit ==
    /\ pc = "rm.commit"
    /\ \E ans \in {"ok", "error"} : RemoveStep("git commit", ans, "rm.askDelete")
    /\ UNCHANGED <<modules, fsWorld>>

\* whether the folder is deleted after the answer to 'Do you want to delete
\* the folder ...?'
Deletes(deleteFolder) == deleteFolder

\* lines 313-331: the second prompt and the deletion of the folder, whose
\* failure is only reported
RemoveAskDelete ==
    /\ pc = "rm.askDelete"
    /\ \E deleteFolder \in BOOLEAN, ans \in {"ok", "error"} :
        /\ ~Deletes(deleteFolder) => ans = "ok"
        /\ Log(<<Call("prompt", "", "deleteFolder", IF deleteFolder THEN "yes" ELSE "no")>>
               \o (IF Deletes(deleteFolder)
                   THEN <<Call("rm -rf", "", Slashed(job.path), ans)>>
                   ELSE <<>>))
        /\ Say(IF ~Deletes(deleteFolder) THEN <<>>
               ELSE IF ans = "ok" THEN <<Line("deleted", Slashed(job.path))>>
               ELSE <<Line("could-not-delete", Slashed(job.path))>>)
        /\ fsWorld' = IF Deletes(deleteFolder) /\ ans = "ok"
                      THEN [fsWorld EXCEPT !.emptied = @ \ {job.path}]
                      ELSE fsWorld
    /\ cwd' = AfterExecFromGitRoot(cwd, job.gitRoot)
    /\ outcome' = Resolved
    /\ pc' = "ended"
    /\ UNCHANGED <<located, modules, job, history>>
    /\ UNCHANGED createLocals

-----------------------------------------------------------------------------
(* The end of a submodule command's process *)

(* nettie fork --url <url> --type <type> *)

\* a repository URL as the text before the owner, the owner, the name split
\* at its dots, and whether '.git' follows
ForkUrls ==
    [form : {"https://github.com/", "git@github.com:", "https://gitlab.com/"},
     owner : {"upstream"}, name : {<<"demo">>, <<"demo", "js">>}, dotGit : BOOLEAN]

NoRepoInfo == [owner |-> "", repo |-> ""]

\* extractRepoInfo: both expressions want owner/name at the end of a GitHub
\* URL, the name free of '/' and '.', with an optional '.git' after it
ExtractRepoInfo(url) ==
    IF url.form \in {"https://github.com/", "git@github.com:"} /\ Len(url.name) = 1
    THEN [owner |-> url.owner, repo |-> url.name[1]]
    ELSE NoRepoInfo

RepoTypes == {"app", "backend", "library"}

ForkFailed(message) ==
    /\ Say(<<Line("error", message)>>)
    /\ outcome' = Exited
    /\ pc' = "ended"

\* forkRepo lines 213-232: the token, the URL and the type, extractRepoInfo
ForkStart(url, repoType, githubToken) ==
    /\ pc = "idle"
    /\ LET info == ExtractRepoInfo(url)
       IN /\ job' = [cmd |-> "fork", arg |-> <<repoType>>, shellDir |-> cwd,
                     owner |-> info.owner, repo |-> info.repo, repoType |-> repoType,
                     targetDir |-> <<>>, cloned |-> FALSE]
          /\ IF ~githubToken
             THEN ForkFailed("GitHub token is required to fork a repository")
             ELSE IF info = NoRepoInfo
             THEN ForkFailed("Could not extract repository information from URL")
             ELSE /\ Say(<<Line("forking", RepoString(info.owner, info.repo))>>)
                  /\ pc' = "fork.create"
                  /\ UNCHANGED outcome
    /\ UNCHANGED <<fsWorld, cwd, located, calls, modules, history>>
    /\ UNCHANGED createLocals

\* forkGitHubRepo: repos.createFork into the organization
ForkCreate ==
    /\ pc = "fork.create"
    /\ \E ans \in {"ok", "Not Found"} :
          /\ Log(<<Call("repos.createFork", RepoString(job.owner, job.repo), OrgName, ans)>>)
          /\ IF ans = "ok"
             THEN /\ Say(<<Line("waiting", "Waiting for the fork to be ready...")>>)
                  /\ pc' = "fork.target"
                  /\ UNCHANGED outcome
             ELSE ForkFailed("Failed to fork repository: " \o ans)
    /\ UNCHANGED <<fsWorld, cwd, located, modules, job, history>>
    /\ UNCHANGED createLocals

\* the five seconds of line 239, then getTargetDirectory: getProjectPath
\* under the root findGitRoot answers
ForkTarget ==
    /\ pc = "fork.target"
    /\ LET r == FindGitRootHere
       IN IF ~r.ok
          THEN /\ ForkFailed("Failed to determine target directory: " \o r.err)
               /\ UNCHANGED job
          ELSE IF job.repoType \notin {"app", "frontend", "backend"}
          THEN /\ ForkFailed("Failed to determine target directory: Unknown project type: "
                                \o job.repoType)
               /\ UNCHANGED job
          ELSE /\ job' = [job EXCEPT !.targetDir = ProjectPath(r.root, job.repoType, job.repo)]
               /\ Say(<<Line("cloning", RepoString(OrgName, job.repo))>>)
               /\ pc' = "fork.clone"
               /\ UNCHANGED outcome
    /\ Log(<<Call("setTimeout", "", "5000", "ok")>>)
    /\ UNCHANGED <<fsWorld, cwd, located, modules, history>>
    /\ UNCHANGED createLocals

\* the git commands of cloneAndCheckout, in order
CloneSteps == <<"clone", "fetch --all", "symbolic-ref", "checkout", "pull">>

\* cloneAndCheckout and the closing messages of forkRepo: the steps run until
\* one fails; once all have run the success is printed and forkRepo returns
ForkClone ==
    /\ pc = "fork.clone"
    /\ \E failing \in 1..(Len(CloneSteps) + 1) :
          /\ Log([i \in 1..(IF failing > Len(CloneSteps) THEN Len(CloneSteps) ELSE failing) |->
                    Call(CloneSteps[i], RepoUrl(RepoString(OrgName, job.repo)),
                         Slashed(job.targetDir), IF i = failing THEN "failed" ELSE "ok")])
          /\ job' = [job EXCEPT !.cloned = failing > 1]
          /\ IF failing > Len(CloneSteps)
             THEN /\ Say(<<Line("forked", Slashed(job.targetDir)),
                           Line("next-steps", "cd " \o Slashed(job.targetDir))>>)
                  /\ outcome' = Resolved
                  /\ pc' = "ended"
             ELSE ForkFailed("Failed to clone and checkout repository: "
                               \o CloneSteps[failing])
    /\ UNCHANGED <<fsWorld, cwd, located, modules, history>>
    /\ UNCHANGED createLocals

-----------------------------------------------------------------------------
\* the process ends: its working directory dies with it, the shell is still
\* where the command was typed
ProcessExit ==
    /\ pc = "ended"
    /\ history' = <<[cmd |-> job.cmd, arg |-> job.arg, printed |-> printed,
                     exit |-> ExitStatus(outcome)]>>
    /\ cwd' = job.shellDir
    /\ job' = NoJob
    /\ calls' = <<>>
    /\ printed' = <<>>
    /\ outcome' = Pending
    /\ pc' = "idle"
    /\ UNCHANGED <<fsWorld, located, modules>>
    /\ UNCHANGED createLocals

-----------------------------------------------------------------------------
(* Specifications *)

\* the state in which no create command runs
CreateIdle ==
    /\ pc = "idle"
    /\ config = [kind |-> "app", name |-> ProjectName,
                 githubRepo |-> <<OrgName, ProjectName>>,
                 createGithubRepo |-> FALSE, githubToken |-> FALSE]
    /\ workspaceRoot = <<>>
    /\ actualGithubRepo = ""
    /\ useOrg = NoOrg
    /\ projectDir = "absent"
    /\ localRepo = NoLocalRepo
    /\ github = [created |-> {}, pushed |-> {}]
    /\ workspaceRepo = [submodules |-> {}, staged |-> FALSE, committed |-> FALSE]
    /\ pushSuccess = FALSE
    /\ branchIdx = 1
    /\ calls = <<>>
    /\ printed = <<>>
    /\ outcome = Pending

\* no submodule command runs or has run
ManagerIdle ==
    /\ modules = NoModules
    /\ job = NoJob
    /\ history = <<>>

\* a user somewhere on disk, about to run commands that locate the workspace
LocateInit ==
    /\ fsWorld \in Worlds
    /\ cwd \in StartDirs(fsWorld)
    /\ located = NotLocated
    /\ CreateIdle
    /\ ManagerIdle

LocateNext == Locate \/ \E d \in StartDirs(fsWorld) : Chdir(d)

LocateSpec == LocateInit /\ [][LocateNext]_vars

\* createApp / createUtility has just been called with a validated configuration
Init ==
    /\ fsWorld \in CreateWorlds
    /\ cwd \in StartDirs(fsWorld)
    /\ located = NotLocated
    /\ pc = "start"
    /\ config \in Configs
    /\ workspaceRoot = <<>>
    /\ actualGithubRepo = RepoString(config.githubRepo[1], config.githubRepo[2])
    /\ useOrg = NoOrg
    /\ \E d \in DiskStates : projectDir = d.dir /\ localRepo = d.repo
    /\ github = [created |-> {}, pushed |-> {}]
    /\ workspaceRepo = [submodules |-> {}, staged |-> FALSE, committed |-> FALSE]
    /\ pushSuccess = FALSE
    /\ branchIdx = 1
    /\ calls = <<>>
    /\ printed = <<>>
    /\ outcome = Pending
    /\ ManagerIdle

Next ==
    \/ FindWorkspace
    \/ CheckDirectory
    \/ GetUsername
    \/ OrgsGet
    \/ CreateInOrg
    \/ CreateForUser
    \/ MakeProject
    \/ InitRepository
    \/ SetRemote
    \/ Push
    \/ Revparse
    \/ Delay
    \/ ClearPath
    \/ SubmoduleAdd
    \/ RawAdd
    \/ Finish

Spec == Init /\ [][Next]_vars

\* the workspaces the submodule commands are run in
ManagerWorlds ==
    [root : {<<"ws">>}, subs : {{<<"apps", "panel">>}, {<<"lib">>, <<"apps", "panel">>}},
     marker : BOOLEAN, emptied : {{}}]

\* where the user types them: the workspace root, the CLI's own directory,
\* a directory outside the workspace
ManagerStartDirs(w) ==
    {w.root, OutsideDir} \cup (IF w.marker THEN {Join(w.root, CliMarker)} ELSE {})

\* arguments given to nettie submodule remove: none, a registered path, the
\* last segment of one, a path that is not registered
RemoveArgs == {NoArg, <<"apps", "panel">>, <<"panel">>, GhostPath}

\* arguments given to nettie submodule update
UpdateArgs == {NoArg, <<"lib">>, <<"apps", "panel">>, GhostPath}

\* a user in a workspace with submodules, about to type submodule commands
ManagerInit ==
    /\ fsWorld \in ManagerWorlds
    /\ cwd \in ManagerStartDirs(fsWorld)
    /\ located = NotLocated
    /\ CreateIdle
    /\ modules \in [fsWorld.subs ->
                      IF Cardinality(fsWorld.subs) = 1 THEN ModuleStates ELSE TypicalStates]
    /\ job = NoJob
    /\ history = <<>>

\* what git submodule status can say of one submodule: in step with the
\* index or ahead of it, on a branch or detached, not initialised, in conflict
ListStates ==
    [head : {Base, LocalCommit}, branch : {"main", "HEAD"}, upstreamRef : {Base},
     recorded : {Base}, changes : {"none"}, initialized : BOOLEAN,
     conflicted : BOOLEAN]

\* a user in a workspace with up to three submodules, about to list them
ListInit ==
    /\ \E registered \in SUBSET {<<"apps", "panel">>, <<"lib">>,
                                  <<"utilities", "frontend", "fid">>} :
          /\ modules \in [registered -> ListStates]
          /\ fsWorld = [root |-> <<"ws">>,
                        subs |-> {q \in registered : modules[q].initialized},
                        marker |-> TRUE,
                        emptied |-> {q \in registered : ~modules[q].initialized}]
    /\ cwd \in {fsWorld.root, Join(fsWorld.root, CliMarker)}
    /\ located = NotLocated
    /\ CreateIdle
    /\ job = NoJob
    /\ history = <<>>

ListNext == ListSubmodules \/ ProcessExit

ListSpec == ListInit /\ [][ListNext]_vars

\* a user with or without a token, about to fork a repository
ForkInit ==
    /\ fsWorld \in CreateWorlds
    /\ cwd \in StartDirs(fsWorld)
    /\ located = NotLocated
    /\ CreateIdle
    /\ modules = NoModules
    /\ job = NoJob
    /\ history = <<>>

ForkNext ==
    \/ \E url \in ForkUrls, repoType \in RepoTypes, githubToken \in BOOLEAN :
          ForkStart(url, repoType, githubToken)
    \/ ForkCreate
    \/ ForkTarget
    \/ ForkClone
    \/ ProcessExit

ForkSpec == ForkInit /\ [][ForkNext]_vars

\* what remove is asked for: nothing, a name that is also a registered path,
\* a full path, a last segment, a path that is not registered
ResolveArgs == {NoArg, <<"lib">>, <<"apps", "lib">>, <<"panel">>, GhostPath}

\* the submodules of a workspace in which several paths end alike; one that
\* is in a merge conflict has no work to lose
ResolveStates ==
    [head : {Base}, branch : {"main"}, upstreamRef : {Base}, recorded : {Base},
     changes : {"none"}, initialized : {TRUE}, conflicted : BOOLEAN]

\* a user at the workspace root, about to remove a submodule
RemoveInit ==
    /\ \E registered \in SUBSET {<<"apps", "lib">>, <<"apps", "panel">>, <<"lib">>,
                                  <<"utilities", "frontend", "lib">>} :
          /\ modules \in [registered -> ResolveStates]
          /\ fsWorld = [root |-> <<"ws">>, subs |-> registered, marker |-> TRUE,
                        emptied |-> {}]
    /\ cwd = fsWorld.root
    /\ located = NotLocated
    /\ CreateIdle
    /\ job = NoJob
    /\ history = <<>>

RemoveNext ==
    \/ \E arg \in ResolveArgs : RemoveStart(arg)
    \/ RemoveConfirm
    \/ RemoveDeinit
    \/ RemoveFromIndex
    \/ RemovePurge
    \/ RemoveCommit
    \/ RemoveAskDelete
    \/ ProcessExit

RemoveSpec == RemoveInit /\ [][RemoveNext]_vars

ManagerNext ==
    \/ \E arg \in UpdateArgs : UpdateStart(arg)
    \/ UpdateFetch
    \/ UpdateStatus
    \/ UpdateMerge
    \/ UpdateFinish
    \/ ListSubmodules
    \/ \E arg \in RemoveArgs : RemoveStart(arg)
    \/ RemoveConfirm
    \/ RemoveDeinit
    \/ RemoveFromIndex
    \/ RemovePurge
    \/ RemoveCommit
    \/ RemoveAskDelete
    \/ ProcessExit

ManagerSpec == ManagerInit /\ [][ManagerNext]_vars

-----------------------------------------------------------------------------
(* Properties of create *)

PushCalls == SelectSeq(calls, LAMBDA c : c.op = "git.push")
AddAttempts == SelectSeq(calls, LAMBDA c : c.op \in {"submoduleAdd", "raw submodule add"})
CreateCalls ==
    SelectSeq(calls, LAMBDA c : c.op \in {"repos.createInOrg", "repos.createForAuthenticatedUser"})
ManualLines == SelectSeq(printed, LAMBDA l : l.kind = "manual")

RemoteCreated == github.created # {}
\* the repository GitHub created in this run
CreatedRepo == CHOOSE r \in github.created : TRUE
FellBack == RemoteCreated /\ CreatedRepo # Requested

\* C1: in every run in which a remote repository was created, the URL of every
\* submodule-add attempt (structured and raw) and of the printed manual
\* commands is the URL of the repository that was created, also after the
\* fallback to the personal account
C1_SubmoduleUrlIsActual ==
    RemoteCreated =>
        /\ \A i \in DOMAIN AddAttempts : AddAttempts[i].url = RepoUrl(CreatedRepo)
        /\ \A i \in DOMAIN ManualLines :
              \E j \in 1..3 :
                  ManualLines[i] = ManualCommands(CreatedRepo, config.kind, config.name)[j]
        /\ FellBack =>
              /\ \A i \in DOMAIN AddAttempts : AddAttempts[i].url # RepoUrl(Requested)
              /\ \A i \in DOMAIN ManualLines :
                    ManualLines[i] # ManualCommands(Requested, config.kind, config.name)[1]

\* a run that fell back to the personal account, tried both forms of
\* submodule add and printed the manual commands
C1_Witness ==
    /\ FellBack
    /\ Len(AddAttempts) = 2
    /\ Len(ManualLines) = 3
    /\ pc = "done"

\* C2: once a repository was created, the 'origin' remote that is added and
\* every push made through it use the URL of the created repository, never
\* the requested one
C2_OriginIsActual ==
    RemoteCreated =>
        /\ \A i \in DOMAIN calls :
              calls[i].op \in {"git.addRemote", "git.push"}
                  => /\ calls[i].url = RepoUrl(CreatedRepo)
                     /\ FellBack => calls[i].url # RepoUrl(Requested)
        /\ pc \in {"push", "revparse", "delay", "clearPath"}
              => localRepo.origin \in {"", RepoUrl(CreatedRepo)}

\* a run that fell back to the personal account and pushed
C2_Witness ==
    /\ FellBack
    /\ Len(PushCalls) >= 1
    /\ localRepo.origin = RepoUrl(RepoString(Username, config.githubRepo[2]))

\* C3: findGitRoot called from the root of a registered submodule returns
\* what findGitRoot called from the workspace root returns
C3_SameRootInsideSubmodule ==
    (\E sub \in fsWorld.subs : located.from = Join(fsWorld.root, sub))
        => located.res = FindGitRoot(fsWorld, fsWorld.root)

\* the case the code was written for: a submodule registered at a path of one
\* segment, from which the workspace root is found
C3_SingleSegmentFound ==
    /\ fsWorld.marker
    /\ located.from = Join(fsWorld.root, <<"lib">>)
    /\ located.res = Found(fsWorld.root)

ConflictAnswered ==
    \E i \in DOMAIN CreateCalls : CreateCalls[i].res = "422 already exists"

NothingLocalProduced ==
    /\ projectDir \in {"absent", "preexisting"}
    /\ ~localRepo.initialCommit
    /\ \A i \in DOMAIN calls :
          calls[i].op \notin {"fs.mkdir", "generateProjectFiles", "git.init", "git.commit"}
    /\ AddAttempts = <<>>
    /\ workspaceRepo.submodules = {}

\* C4: whenever the creation call, under the organization or under the
\* personal account, is answered that the name already exists, create fails
\* with the name-conflict error and has produced no local directory, no
\* local commit and no submodule-add attempt
C4_ConflictLeavesNothing ==
    ConflictAnswered =>
        /\ pc = "done"
        /\ outcome \in {Rejected(ErrConflictOrg), Rejected(ErrConflictUser)}
        /\ NothingLocalProduced

\* a name conflict under the organization and one under the personal account
C4_Witness ==
    /\ pc = "done"
    /\ ConflictAnswered
    /\ CreateCalls[Len(CreateCalls)].op = "repos.createForAuthenticatedUser"
    /\ Len(CreateCalls) = 2

\* C5: when the creation under the organization is answered 422 'already
\* exists', the call fails at once and no creation under the personal account
\* is attempted
C5_OrgConflictIsFatal ==
    (\E i \in DOMAIN CreateCalls :
        CreateCalls[i].op = "repos.createInOrg" /\ CreateCalls[i].res = "422 already exists")
    => /\ Len(CreateCalls) = 1
       /\ outcome = Rejected(ErrConflictOrg)
       /\ pc = "done"
       /\ github.created = {}

C5_Witness ==
    /\ Len(CreateCalls) = 1
    /\ CreateCalls[1].res = "422 already exists"
    /\ CreateCalls[1].op = "repos.createInOrg"
    /\ outcome.state = "rejected"

\* the organization lookup or creation failed, and not with a name conflict
OrgFailedOtherwise ==
    \E i \in DOMAIN calls :
        /\ calls[i].op \in {"orgs.get", "repos.createInOrg"}
        /\ calls[i].res \notin {"ok", "created", "422 already exists"}

UserCalls == SelectSeq(calls, LAMBDA c : c.op = "repos.createForAuthenticatedUser")

\* C6: after a failure of the organization lookup or creation that is not a
\* name conflict, the creation under the personal account is attempted exactly
\* once; its success returns <login>/<name>, not <org>/<name>; its name
\* conflict makes the call fail
C6_FallbackOnce ==
    OrgFailedOtherwise =>
        /\ pc = "createForUser" => UserCalls = <<>>
        /\ pc # "createForUser" =>
              /\ Len(UserCalls) = 1
              /\ UserCalls[1].res = "created" =>
                    /\ actualGithubRepo = RepoString(Username, config.githubRepo[2])
                    /\ actualGithubRepo # RepoString(useOrg, config.githubRepo[2])
                    /\ actualGithubRepo \in github.created
                    /\ outcome.state # "rejected"
              /\ UserCalls[1].res = "422 already exists" => outcome = Rejected(ErrConflictUser)
              /\ UserCalls[1].res # "created" => outcome.state = "rejected" /\ pc = "done"

C6_Witness ==
    /\ OrgFailedOtherwise
    /\ Len(UserCalls) = 1
    /\ UserCalls[1].res = "created"
    /\ pc = "done"
    /\ outcome = Resolved

DirectoryExisted ==
    \E i \in DOMAIN calls : calls[i].op = "fs.access" /\ calls[i].res = "ok"

\* C7: if the project directory exists when create starts, create aborts with
\* the directory-exists error: no repository creation call is made and nothing
\* is written into the directory
C7_ExistingDirectoryAborts ==
    DirectoryExisted =>
        /\ CreateCalls = <<>>
        /\ projectDir = "preexisting"
        /\ pc = "done" /\ outcome = Rejected("Directory already exists")

AllPushesFailed ==
    /\ Len(PushCalls) = Len(BranchNames)
    /\ \A i \in DOMAIN PushCalls : PushCalls[i].res = "rejected"

\* C8: when the push failed for every candidate branch, create resolves, and
\* when it has ended the local repository at the project path still exists
\* with its initial commit
C8_LocalRepoSurvivesPushFailure ==
    (AllPushesFailed /\ pc = "done") =>
        /\ outcome = Resolved
        /\ localRepo.exists
        /\ localRepo.initialCommit

\* C9: the pushes go to 'main' then 'master', none follows a success; when
\* 'main' is rejected and 'master' accepted the push counts as successful and,
\* when the push step is over, origin is the URL of the actual repository
C9_BranchFallback ==
    /\ Len(PushCalls) <= Len(BranchNames)
    /\ \A i \in DOMAIN PushCalls :
          /\ PushCalls[i].arg = BranchNames[i]
          /\ i < Len(PushCalls) => PushCalls[i].res = "rejected"
    /\ (Len(PushCalls) = 2 /\ PushCalls[2].res = "ok") =>
          /\ pushSuccess
          /\ pc # "push"
          /\ \E i \in DOMAIN printed : printed[i].kind = "push"
          /\ \A i \in DOMAIN printed : printed[i].kind # "push-failed" \/ ~IsApp
          /\ PushCalls[2].url = RepoUrl(actualGithubRepo)
          /\ pc \in {"revparse", "delay", "clearPath"}
                => localRepo.origin = RepoUrl(actualGithubRepo)
          /\ RemoteCreated => actualGithubRepo = CreatedRepo

C9_Witness ==
    /\ Len(PushCalls) = 2
    /\ PushCalls[1].res = "rejected"
    /\ PushCalls[2].res = "ok"
    /\ pc = "revparse"
    /\ localRepo.origin = RepoUrl(actualGithubRepo)

\* position in calls of the structured / of the raw submodule-add call (0: none)
IndexOf(op) ==
    IF \E i \in DOMAIN calls : calls[i].op = op
    THEN CHOOSE i \in DOMAIN calls : calls[i].op = op
    ELSE 0

\* the attempt whose add call is calls[i] failed: the add call itself, or, in
\* createUtility, the commit that belongs to the same attempt
AttemptFailed(i) ==
    \/ calls[i].res = "error"
    \/ /\ i + 2 <= Len(calls)
       /\ calls[i + 2].op = "git commit"
       /\ calls[i + 2].res = "error"

StructuredFailed == IndexOf("submoduleAdd") # 0 /\ AttemptFailed(IndexOf("submoduleAdd"))
RawFailed == IndexOf("raw submodule add") # 0 /\ AttemptFailed(IndexOf("raw submodule add"))

\* C10: the structured submodule add comes first; the raw form is attempted
\* exactly when the structured attempt failed; when both failed, create still
\* resolves and the three manual commands are printed
C10_StructuredThenRaw ==
    /\ Len(AddAttempts) <= 2
    /\ Len(AddAttempts) >= 1 => AddAttempts[1].op = "submoduleAdd"
    /\ Len(AddAttempts) = 2 => AddAttempts[2].op = "raw submodule add"
    /\ pc = "rawAdd" => StructuredFailed /\ Len(AddAttempts) = 1
    /\ (IndexOf("submoduleAdd") # 0 /\ pc \in {"finish", "done"})
          => (IndexOf("raw submodule add") # 0 <=> StructuredFailed)
    /\ AddAttempts # <<>> => outcome.state # "rejected"
    /\ (StructuredFailed /\ RawFailed) =>
          /\ ManualLines = ManualCommands(actualGithubRepo, config.kind, config.name)
          /\ ManualLines[1].text =
                "git submodule add " \o AddAttempts[2].url \o " " \o AddAttempts[2].arg
          /\ ManualLines[2].text = "git add .gitmodules"
          /\ pc \in {"finish", "done"}
          /\ pc = "done" => outcome = Resolved

\* both attempts failed and create has ended
C10_Witness ==
    /\ StructuredFailed
    /\ RawFailed
    /\ pc = "done"
    /\ outcome = Resolved
    /\ Len(ManualLines) = 3

\* the automatic registration did not happen: the check that the workspace
\* root is a git repository threw, or both forms of submodule add failed
RevparseThrew ==
    \E i \in DOMAIN calls : calls[i].op = "git.revparse" /\ calls[i].res = "error"

AddFailedAutomatically == RevparseThrew \/ (StructuredFailed /\ RawFailed)

\* C11: on every path on which create fails to register the submodule
\* automatically, the case that the workspace root is not a valid git
\* repository included, the three manual commands are printed
C11_ManualCommandsOnEveryFailure ==
    (AddFailedAutomatically /\ pc \in {"finish", "done"}) =>
        ManualLines = ManualCommands(actualGithubRepo, config.kind, config.name)

\* createUtility, whose outer catch does print the commands
C11_UtilityPrintsCommands ==
    /\ RevparseThrew
    /\ ~IsApp
    /\ pc = "done"
    /\ ManualLines = ManualCommands(actualGithubRepo, config.kind, config.name)

-----------------------------------------------------------------------------
(* Properties of the submodule commands *)

\* an update command that got as far as listing its submodules
UpdateUnderWay == job.cmd = "update" /\ "initialStates" \in DOMAIN job

\* the registered submodules the running update processes
Processed ==
    {q \in DOMAIN modules : \E i \in DOMAIN job.submodules : job.submodules[i] = q}

Reported(kind, path) ==
    \E i \in DOMAIN printed : printed[i] = Line(kind, Slashed(path))

UpdateReturned == UpdateUnderWay /\ pc = "ended" /\ outcome = Resolved

\* C12: at every step of an update, a processed submodule that has
\* uncommitted local changes is at the commit and on the branch it was at
\* when the command started, and when the command has returned a conflict
\* was reported for it
C12_DirtySubmoduleUntouched ==
    UpdateUnderWay =>
        \A q \in Processed :
            (modules[q].initialized /\ modules[q].changes # "none") =>
                /\ modules[q].head = job.initialStates[q].commit
                /\ modules[q].branch = job.initialStates[q].branch
                /\ UpdateReturned => Reported("conflict", q)

\* a submodule with local changes at the commit the workspace records: it is
\* left alone and reported as conflict
C12_DirtyAtRecordedCommit ==
    /\ UpdateReturned
    /\ \E q \in Processed :
          /\ modules[q].changes = "carried"
          /\ modules[q].head = modules[q].recorded
          /\ modules[q].branch = "main"
          /\ Reported("conflict", q)

\* the run met no failure of the environment on q: the fetch worked and the
\* merge, if there was one, did not fail
Undisturbed(q) == Reported("fetched", q) /\ ~Reported("failed", q)

\* q was, when the running update started, on main, strictly behind the
\* remote's tip and without local changes
StartedBehind(q) ==
    /\ job.initialStates[q] = [commit |-> Base, branch |-> "main"]
    /\ modules[q].changes = "none"

\* the previous command was the same update and reported q as updated
JustUpdated(q) ==
    /\ history # <<>>
    /\ history[1].cmd = "update"
    /\ history[1].arg = job.arg
    /\ \E i \in DOMAIN history[1].printed :
          history[1].printed[i] = Line("updated", Slashed(q))

\* C13: an update of a submodule that is strictly behind its upstream and has
\* no local changes moves it to the upstream commit and reports it updated;
\* the same update run again at once leaves the commit where it is and
\* reports the submodule unchanged
C13_UpdateThenUnchanged ==
    UpdateReturned =>
        \A q \in Processed :
            /\ (StartedBehind(q) /\ Undisturbed(q)) =>
                  /\ modules[q].head = RemoteTip
                  /\ Reported("updated", q)
            /\ (JustUpdated(q) /\ Undisturbed(q)) =>
                  /\ modules[q].head = job.initialStates[q].commit
                  /\ Reported("unchanged", q)

\* the first half happening: a submodule that was behind is fast-forwarded
\* and reported updated
C13_FastForwarded ==
    /\ UpdateReturned
    /\ \E q \in Processed :
          /\ StartedBehind(q)
          /\ modules[q].head = RemoteTip
          /\ modules[q].branch = "main"
          /\ Reported("updated", q)

SuccessAnnounced ==
    \E i \in DOMAIN printed : printed[i].kind = "all-updated"

\* C14: an update announces 'All submodules updated successfully!' only if no
\* processed submodule was skipped for a conflict, failed to merge, or has no
\* upstream tracking branch
C14_SuccessOnlyIfAllUpdated ==
    (UpdateReturned /\ SuccessAnnounced) =>
        \A i \in DOMAIN job.submodules :
            /\ ~Reported("conflict", job.submodules[i])
            /\ ~Reported("failed", job.submodules[i])
            /\ ~Reported("no-tracking", job.submodules[i])

\* a run in which a conflict keeps the success message away, although the
\* other submodule was updated
C14_AttentionAfterConflict ==
    /\ UpdateReturned
    /\ ~SuccessAnnounced
    /\ \E q \in Processed : Reported("conflict", q)
    /\ \E q \in Processed : Reported("updated", q)

\* the step taken is a merge --ff-only that git refused
MergeRefused ==
    /\ Len(calls') = Len(calls) + 1
    /\ calls'[Len(calls')].op = "merge --ff-only"
    /\ calls'[Len(calls')].res = "error"

\* C15: when git merge --ff-only fails, the step leaves every submodule at
\* the commit and on the branch it was at before the attempt, does nothing
\* else to resolve it, reports the submodule as failed and marks the run as
\* needing attention; a run with a failed submodule never announces success
C15_FailedMergeLeavesCommit ==
    /\ [][MergeRefused =>
            /\ modules' = modules
            /\ printed' = printed \o <<Line("failed", calls'[Len(calls')].arg)>>
            /\ job'.hasConflicts]_vars
    /\ [](UpdateUnderWay =>
            \A q \in Processed :
                Reported("failed", q) =>
                    /\ Len(SelectSeq(calls, LAMBDA c : c.op = "merge --ff-only"
                                                       /\ c.arg = Slashed(q))) = 1
                    /\ pc \in {"upd.merge", "upd.finish"} => job.hasConflicts
                    /\ UpdateReturned => ~SuccessAnnounced)

\* an update that has returned after the merge of a submodule failed: the
\* submodule is where it was when the command started
C15_Witness ==
    /\ UpdateReturned
    /\ ~SuccessAnnounced
    /\ \E q \in Processed :
          /\ Reported("failed", q)
          /\ modules[q].head = job.initialStates[q].commit
          /\ modules[q].branch = "main"

\* the paths for which the previous command printed 'removed successfully'
RemovedBefore ==
    IF history = <<>> THEN {}
    ELSE {q \in SubmodulePaths :
             \E i \in DOMAIN history[1].printed :
                 history[1].printed[i] = Line("removed", Slashed(q))}

\* the path whose removal the running command has completed
RemovedNow ==
    {q \in SubmodulePaths : job.cmd = "remove" /\ Reported("removed", q)}

C16_ListedAfterRemoval ==
    /\ RemovedBefore = {<<"apps", "panel">>}
    /\ job.cmd = "list"
    /\ Reported("submodule", <<"lib">>)
    /\ pc = "ended"

StepOrder ==
    <<"git submodule deinit -f", "git rm -f", "rm -rf .git/modules", "git commit">>

\* the calls of the four removal steps, in the order they were made
StepCalls ==
    SelectSeq(calls, LAMBDA c : \E i \in DOMAIN StepOrder : c.op = StepOrder[i])

\* C17: the removal runs deinit, index removal, purge of .git/modules and
\* commit in this order, each at most once and each on the resolved path;
\* after a step that failed no further command is run, the command ends with
\* the error and without the success message
C17_StepsInOrder ==
    /\ Len(StepCalls) <= Len(StepOrder)
    /\ \A i \in DOMAIN StepCalls :
          /\ StepCalls[i].op = StepOrder[i]
          /\ StepCalls[i].arg = Slashed(job.path)
          /\ i < Len(StepCalls) => StepCalls[i].res = "ok"
    /\ (StepCalls # <<>> /\ StepCalls[Len(StepCalls)].res = "error") =>
          /\ calls[Len(calls)] = StepCalls[Len(StepCalls)]
          /\ pc = "ended"
          /\ outcome = Rejected(ErrGitCommand)
          /\ ~Reported("removed", job.path)
    /\ RemovedNow # {} =>
          /\ RemovedNow = {job.path}
          /\ Len(StepCalls) = Len(StepOrder)
          /\ \A i \in DOMAIN StepCalls : StepCalls[i].res = "ok"

\* the commit, the last of the four steps, failed
C17_Witness ==
    /\ Len(StepCalls) = Len(StepOrder)
    /\ StepCalls[Len(StepCalls)].res = "error"
    /\ pc = "ended"
    /\ job.path \notin SubmoduleStatus

\* a prompt answered yes, at some position before position n of calls
Confirmed(question, n) ==
    \E i \in 1..(n - 1) : calls[i] = Call("prompt", "", question, "yes")

\* a removal that got past the resolution of its path
RemovalUnderWay == job.cmd = "remove" /\ "path" \in DOMAIN job

CommitSucceeded ==
    \E i \in DOMAIN calls : calls[i] = Call("git commit", "", Slashed(job.path), "ok")

\* C18: none of the four removal steps is run unless the first prompt was
\* answered yes before it; the directory of the submodule is on disk until
\* the commit has succeeded and the second prompt was answered yes, and the
\* rm -rf of the directory is not run before that either
C18_NothingWithoutConfirmation ==
    RemovalUnderWay =>
        /\ \A n \in DOMAIN calls :
              (\E i \in DOMAIN StepOrder : calls[n].op = StepOrder[i])
                  => Confirmed("confirm", n)
        /\ \A n \in DOMAIN calls :
              calls[n].op = "rm -rf" => CommitSucceeded /\ Confirmed("deleteFolder", n)
        /\ Join(fsWorld.root, job.path) \notin Directories(fsWorld)
              => CommitSucceeded /\ Confirmed("deleteFolder", Len(calls) + 1)

\* the user declined at the first prompt: nothing was run and the submodule
\* is registered and on disk
C18_Declined ==
    /\ RemovalUnderWay
    /\ pc = "ended"
    /\ calls[Len(calls)] = Call("prompt", "", "confirm", "no")
    /\ StepCalls = <<>>
    /\ job.path \in SubmoduleStatus
    /\ Join(fsWorld.root, job.path) \in Directories(fsWorld)

\* C19: when a submodule command has returned or thrown, the process is in
\* the directory it was started in; and the step of create that registers
\* the submodule by the raw command leaves the process where it was
C19_WorkingDirectoryRestored ==
    /\ [](pc = "ended" => cwd = job.shellDir)
    /\ [][pc = "rawAdd" => cwd' = cwd]_vars

\* execFromGitRoot does restore: a list or a removal typed in the CLI's own
\* directory ends there
C19_RestoredByExecFromGitRoot ==
    /\ pc = "ended"
    /\ job.cmd \in {"list", "remove"}
    /\ calls # <<>>
    /\ job.shellDir = Join(fsWorld.root, CliMarker)
    /\ cwd = job.shellDir

\* a recoverable error occurred in the command that has ended
RecoverableErrorInCreate == pc = "done" /\ (AllPushesFailed \/ (StructuredFailed /\ RawFailed))

RecoverableErrorInUpdate ==
    /\ pc = "ended"
    /\ UpdateUnderWay
    /\ \E q \in Processed : Reported("conflict", q) \/ Reported("failed", q)

\* C20: a command in which every push failed, or both attempts to register
\* the submodule failed, or a submodule was skipped for a conflict or failed
\* to update, goes on to its end and its process ends with a non-zero status
C20_RecoverableErrorsExitNonZero ==
    /\ RecoverableErrorInCreate =>
          /\ outcome.state # "pending"
          /\ ExitStatus(outcome) # 0
    /\ RecoverableErrorInUpdate =>
          /\ \E i \in DOMAIN printed : printed[i].kind = "attention"
          /\ ExitStatus(outcome) # 0

\* the remaining work is done: after the conflict of the first submodule the
\* second one is still merged, and the closing message is printed
C20_WorkFinishedAfterConflict ==
    /\ RecoverableErrorInUpdate
    /\ Reported("conflict", <<"apps", "panel">>)
    /\ Reported("updated", <<"lib">>)
    /\ printed[Len(printed)].kind = "attention"
    /\ outcome = Resolved

-----------------------------------------------------------------------------
(* Further properties *)

\* findGitRoot was called from a directory inside a git work tree
LocatedInsideGit ==
    located # NotLocated /\ ShowToplevel(fsWorld, located.from) # NoRepo

\* C21: findGitRoot called inside a git repository in which no candidate
\* root has the utilities/cli directory fails with 'not in the nettie-apps
\* repository', which is not the error of a directory outside every git
\* repository
C21_NotAWorkspaceError ==
    (LocatedInsideGit /\ ~fsWorld.marker) =>
        /\ located.res = Thrown(ErrNotNettie)
        /\ located.res # FindGitRoot(fsWorld, OutsideDir)

\* the other error, where it belongs: findGitRoot called outside every git
\* repository
C21_OutsideGit ==
    /\ located.from = OutsideDir
    /\ located.res = Thrown(ErrNotGit)

\* the lines of git submodule status that the parser can read: all but those
\* of submodules in a merge conflict
Parseable == SelectSeq(StatusLines, LAMBDA q : ~modules[q].conflicted)

\* the commit git submodule status prints for a submodule
Shown(m) == IF m.initialized THEN m.head ELSE m.recorded

ListReturned == "cmd" \in DOMAIN job /\ job.cmd = "list" /\ pc = "ended" /\ outcome = Resolved

\* C22: when listSubmodules returns in a workspace with submodules, it has
\* printed, after the heading, exactly one record of four lines for every
\* parseable line of git submodule status, in the order of the status
\* output: the path, the URL of .gitmodules, the seven-character commit and
\* the branch ('N/A' when git describes none); lines that do not parse
\* produce nothing.
C22_OneRecordPerParseableLine ==
    ListReturned /\ StatusLines # <<>> =>
        /\ Len(printed) = 1 + 4 * Len(Parseable)
        /\ \A i \in DOMAIN Parseable :
              LET q == Parseable[i]
                  at == 4 * (i - 1) + 1
              IN /\ printed[at + 1] = Line("submodule", Slashed(q))
                 /\ printed[at + 2] = Line("url", GitmodulesUrl(q))
                 /\ printed[at + 3] = Line("commit", Shown(modules[q]))
                 /\ printed[at + 4].kind = "branch"
                 /\ printed[at + 4].text = "N/A" <=> ~modules[q].initialized

\* three submodules are registered, the second is in a merge conflict, and
\* the list shows the first and the third
C22_ConflictedLineSkipped ==
    /\ ListReturned
    /\ Len(StatusLines) = 3
    /\ modules[StatusLines[2]].conflicted
    /\ Len(Parseable) = 2
    /\ Reported("submodule", StatusLines[1])
    /\ Reported("submodule", StatusLines[3])
    /\ ~Reported("submodule", StatusLines[2])

ForkReturned == "cmd" \in DOMAIN job /\ job.cmd = "fork" /\ pc = "ended" /\ outcome = Resolved

\* C23: when the fork command has succeeded (the repository is forked and
\* cloned into the target directory), the target path is registered as a
\* submodule of the workspace.
C23_ForkRegistersSubmodule ==
    ForkReturned =>
        \E m \in workspaceRepo.submodules : m.path = RelPath(job.repoType, job.repo)

\* a fork has succeeded: the fork was created, all of cloneAndCheckout ran,
\* and no git submodule add was made
C23_ForkedAndCloned ==
    /\ ForkReturned
    /\ job.cloned
    /\ \E i \in DOMAIN calls : calls[i].op = "repos.createFork" /\ calls[i].res = "ok"
    /\ \A i \in DOMAIN calls : calls[i].op \in {"repos.createFork", "setTimeout"}
                                 \/ \E k \in DOMAIN CloneSteps : calls[i].op = CloneSteps[k]

\* how many calls of the run were made to one operation
Count(op) == Cardinality({i \in DOMAIN calls : calls[i].op = op})

CreateRunning == pc \notin {"idle", "ended"} /\ job = NoJob

\* C24: at every point of a create run there has been at most one call
\* creating the repository in the organization, at most one creating it under
\* the personal account, at most two pushes (one per candidate branch, never
\* the same branch twice), and at most two submodule-add attempts (one
\* structured, one raw); the organization is looked up at most once.
C24_BoundedAttempts ==
    CreateRunning =>
        /\ Count("orgs.get") <= 1
        /\ Count("repos.createInOrg") <= 1
        /\ Count("repos.createForAuthenticatedUser") <= 1
        /\ Count("git.push") <= 2
        /\ \A i, k \in DOMAIN calls :
              calls[i].op = "git.push" /\ calls[k].op = "git.push" /\ i # k
                  => calls[i].arg # calls[k].arg
        /\ Count("submoduleAdd") <= 1
        /\ Count("raw submodule add") <= 1

\* a run in which every chain was used up: the organization refused, the
\* personal account took the repository, both pushes were rejected and both
\* submodule-add attempts failed
C24_EveryChainExhausted ==
    /\ pc = "done"
    /\ Count("repos.createInOrg") = 1
    /\ Count("repos.createForAuthenticatedUser") = 1
    /\ Count("git.push") = 2
    /\ \A i \in DOMAIN calls : calls[i].op = "git.push" => calls[i].res = "rejected"
    /\ Count("submoduleAdd") = 1
    /\ Count("raw submodule add") = 1
    /\ ~Registered

IsAdd(c) == c.op \in {"submoduleAdd", "raw submodule add"}

\* the push step is over with the calls before position d: no push was made
\* (the remote could not be set up), or the last push succeeded, or every
\* candidate branch was tried
PushStepOver(d) ==
    LET pushes == {k \in 1..(d - 1) : calls[k].op = "git.push"}
    IN \/ pushes = {}
       \/ Cardinality(pushes) = Len(BranchNames)
       \/ \E k \in pushes : calls[k].res = "ok" /\ \A l \in pushes : l <= k

\* C26: in a create run, before every submodule-add attempt the wait has
\* been made, the push step was over when the wait began, and no push
\* follows the wait.
C26_AddAfterPushAndDelay ==
    CreateRunning =>
        \A i \in DOMAIN calls :
            IsAdd(calls[i]) =>
                \E d \in 1..(i - 1) :
                    /\ calls[d].op = "setTimeout"
                    /\ PushStepOver(d)
                    /\ \A k \in DOMAIN calls : calls[k].op = "git.push" => k < d

\* a run that registered the submodule after a push that needed both
\* candidate branches
C26_RegisteredAfterPush ==
    /\ pc = "done"
    /\ Registered
    /\ Count("git.push") = 2
    /\ \E i \in DOMAIN calls : IsAdd(calls[i]) /\ calls[i].res = "ok"

\* what an update prints about one submodule while fetching, and while merging
FetchKinds == {"fetching", "fetched", "could-not-fetch"}
MergeKinds == {"conflict", "no-tracking", "updated", "unchanged", "failed"}

\* the positions of the lines printed about single submodules
AboutOne == {i \in DOMAIN printed : printed[i].kind \in FetchKinds \cup MergeKinds}

\* the place in the list of submodules of the one a line is about
PlaceOf(line) ==
    CHOOSE n \in DOMAIN job.submodules : Slashed(job.submodules[n]) = line.text

\* C25 as stated: the lines an update prints about its submodules are
\* grouped by submodule: once a line about a later submodule of the list is
\* printed, no line about an earlier one follows.
C25_OneSubmoduleAtATime ==
    UpdateUnderWay =>
        \A i, k \in AboutOne :
            i < k => PlaceOf(printed[i]) <= PlaceOf(printed[k])

\* C25 amended: an update works in two passes over the list. Every
\* submodule is initialised and fetched, in list order, before the first
\* conflict check or merge; then every submodule is checked and merged, in
\* the same order. Within a pass the work on one submodule is over before the
\* work on the next begins.
C25_TwoPassesInOrder ==
    UpdateUnderWay =>
        \A i, k \in AboutOne :
            i < k =>
                /\ printed[k].kind \in FetchKinds => printed[i].kind \in FetchKinds
                /\ (printed[i].kind \in FetchKinds <=> printed[k].kind \in FetchKinds)
                      => PlaceOf(printed[i]) <= PlaceOf(printed[k])

\* an update of two submodules has returned: both were fetched, then both
\* were merged
C25_BothFetchedThenMerged ==
    /\ UpdateReturned
    /\ Len(job.submodules) = 2
    /\ \A n \in DOMAIN job.submodules :
          /\ Reported("fetched", job.submodules[n])
          /\ Reported("updated", job.submodules[n]) \/ Reported("unchanged", job.submodules[n])

\* an update that was given a path no submodule is registered at has ended
UnknownPathEnded ==
    /\ UpdateUnderWay
    /\ pc = "ended"
    /\ job.arg # NoArg
    /\ job.arg \notin DOMAIN modules

\* C27: an update that was given a path that is not a registered submodule
\* ends with an error message printed for the user, and not with an
\* exception that nothing handles.
C27_UnknownPathReported ==
    UnknownPathEnded =>
        /\ outcome.state # "rejected"
        /\ \E i \in DOMAIN printed : printed[i].kind = "error"

\* the update of a path that is not registered has ended: git submodule
\* update --init was tried on it and failed, and nothing else was called
C27_UnknownPathTried ==
    /\ UnknownPathEnded
    /\ job.arg = GhostPath
    /\ \E i \in DOMAIN calls :
          calls[i] = Call("submodule update --init", "", Slashed(GhostPath), "error")
    /\ Reported("could-not-fetch", GhostPath)

\* the create run is over and one of the two attempts announced that the
\* submodule was added
AddedAutomatically ==
    /\ pc = "done"
    /\ \E i \in DOMAIN printed : printed[i].kind = "added"

\* C28: after a create run that added the submodule automatically, the
\* workspace repository has the submodule registered, .gitmodules staged and
\* the commit that records the submodule, as after the three manual commands.
C28_RegistrationCommitted ==
    AddedAutomatically =>
        /\ Registered
        /\ workspaceRepo.staged
        /\ workspaceRepo.committed

\* createApp added the submodule at the first attempt and made no commit in
\* the workspace
C28_AppAddedNotCommitted ==
    /\ AddedAutomatically
    /\ IsApp
    /\ Count("submoduleAdd") = 1 /\ Count("raw submodule add") = 0
    /\ Count("git commit") = 0
    /\ Registered /\ workspaceRepo.staged /\ ~workspaceRepo.committed

\* the calls that create a repository at GitHub, configure the remote, push
\* or add the submodule
RemoteOps ==
    {"getGitHubUsername", "orgs.get", "repos.createInOrg", "repos.createForAuthenticatedUser",
     "git.getRemotes", "git.remote remove", "git.addRemote", "git.push",
     "submoduleAdd", "raw submodule add"}

\* C29: a create run that was not asked for a GitHub repository makes no
\* call that creates a repository, configures a remote, pushes or adds a
\* submodule; when it has returned, the project directory holds a repository
\* with the initial commit, and nothing is registered in the workspace.
C29_LocalOnly ==
    CreateRunning /\ ~config.createGithubRepo =>
        /\ \A i \in DOMAIN calls : calls[i].op \notin RemoteOps
        /\ github.created = {} /\ github.pushed = {}
        /\ workspaceRepo.submodules = {}
        /\ pc = "done" /\ outcome = Resolved =>
              /\ projectDir # "absent"
              /\ localRepo.exists /\ localRepo.initialCommit
              /\ \E i \in DOMAIN printed : printed[i].kind = "local"

\* a run without a GitHub repository is over: the directory was made, the
\* repository initialised and the first commit made, although a token was at
\* hand
C29_LocalRunDone ==
    /\ pc = "done"
    /\ ~config.createGithubRepo /\ config.githubToken
    /\ Count("git.init") = 1 /\ Count("git.commit") = 1
    /\ localRepo.initialCommit
    /\ outcome = Resolved

\* the registered paths that end with '/' + name, in status order
EndingWith(name) == SelectSeq(StatusLines, LAMBDA q : EndsWithSlash(q, name))

\* remove was given a path and has either resolved it (the confirmation is
\* the next thing to happen) or thrown
ResolutionMade ==
    /\ "cmd" \in DOMAIN job /\ job.cmd = "remove" /\ job.arg # NoArg
    /\ pc = "rm.confirm" \/ (pc = "ended" /\ outcome.state = "rejected" /\ calls = <<>>)

\* C30: a path that is registered resolves to itself, whatever else ends
\* with it; a name that is no registered path resolves to the first
\* registered path, in status order, that ends with '/' + name; when there
\* is none the command throws the does-not-exist error with no prompt shown
\* and nothing changed.
C30_ExactThenTrailing ==
    ResolutionMade =>
        IF job.arg \in DOMAIN modules
        THEN pc = "rm.confirm" /\ job.path = job.arg
        ELSE IF EndingWith(job.arg) # <<>>
        THEN pc = "rm.confirm" /\ job.path = EndingWith(job.arg)[1]
        ELSE /\ pc = "ended"
             /\ outcome = Rejected(ErrDoesNotExist(job.arg))
             /\ calls = <<>>

\* 'lib' and 'apps/lib' are both registered, 'lib' is in a merge conflict,
\* and remove lib is about to ask whether 'apps/lib' is to be removed
C30_OtherSubmoduleChosen ==
    /\ ResolutionMade
    /\ job.arg = <<"lib">>
    /\ <<"lib">> \in DOMAIN modules /\ modules[<<"lib">>].conflicted
    /\ pc = "rm.confirm"
    /\ job.path = <<"apps", "lib">>

====
